---- MODULE Spec2Model ----
(***************************************************************************)
(* A model of the arbitrary-precision number core of bc (src/src/num.c).   *)
(*                                                                         *)
(* A number (BcNum) is a record [num, len, rdx, scale, neg]: num is the    *)
(* digit buffer, least-significant cell first, num[i + 1] being the C cell *)
(* num[i]; len, rdx, scale and neg are the fields of the struct.  The      *)
(* buffer may be longer than len: the cells past len are the cells the     *)
(* code left in the allocation.                                            *)
(*                                                                         *)
(* The digit width BC_BASE_DIGS is a compile-time parameter of the source  *)
(* (9 or 4 there).  It is instantiated to 2 here, so that a cell holds a   *)
(* value below 100 and every double-width product the code forms stays     *)
(* inside TLC's integers.  BcBigDig is 16 bits wide for the same reason.   *)
(*                                                                         *)
(* The state: pc is the position of the caller ("ready", "done", or inside *)
(* a function that is followed step by step), op the last function called, *)
(* a, b and scale its arguments, c and d its outputs, st its status and    *)
(* ret the value of bc_num_cmp; hops counts the calls of a sequence;       *)
(* sig_received is the flag of the signal handler, ibase the base in use   *)
(* and vm the output sink; karatsuba_len is the threshold                  *)
(* BC_NUM_KARATSUBA_LEN of the build; frame holds the locals of a function *)
(* that is followed step by step, and is <<>> otherwise.                   *)
(***************************************************************************)
EXTENDS Integers, Sequences, FiniteSets, TLC

VARIABLES pc, op, a, b, scale, c, d, st, ret, hops, sig_received, ibase, vm,
          karatsuba_len, frame

vars ==
    <<pc, op, a, b, scale, c, d, st, ret, hops, sig_received, ibase, vm,
      karatsuba_len, frame>>

(***************************************************************************)
(* Compile-time parameters (num.h).                                        *)
(***************************************************************************)
BC_BASE == 10
BC_BASE_DIGS == 2
BC_NUM_DEF_SIZE == 16
BC_NUM_KARATSUBA_LEN == 16
BC_LONG_BIT == 16

RECURSIVE bc_num_pow10(_)
bc_num_pow10(n) == IF n = 0 THEN 1 ELSE BC_BASE * bc_num_pow10(n - 1)

BC_BASE_POW == bc_num_pow10(BC_BASE_DIGS)

RECURSIVE Pow2(_)
Pow2(n) == IF n = 0 THEN 1 ELSE 2 * Pow2(n - 1)

\* BcBigDig arithmetic wraps at BC_NUM_BIGDIG_MAX + 1.
BC_NUM_BIGDIG_MAX == Pow2(BC_LONG_BIT) - 1

BC_MAX(x, y) == IF x > y THEN x ELSE y
BC_MIN(x, y) == IF x < y THEN x ELSE y

BC_NUM_ROUND_POW(s) == s + BC_BASE_DIGS - 1
BC_NUM_RDX(s) == BC_NUM_ROUND_POW(s) \div BC_BASE_DIGS

BC_NUM_ZERO(n) == n.len = 0
BC_NUM_NONZERO(n) == n.len # 0
BC_NUM_ONE(n) == n.len = 1 /\ n.rdx = 0 /\ n.num[1] = 1

\* The signal flag, read by every polling loop.
BC_SIG == sig_received
BC_NO_SIG == ~sig_received

BC_STATUS_SUCCESS == "SUCCESS"
BC_STATUS_SIGNAL == "SIGNAL"
BC_ERROR_MATH_NEGATIVE == "MATH_NEGATIVE"
BC_ERROR_MATH_NON_INTEGER == "MATH_NON_INTEGER"
BC_ERROR_MATH_OVERFLOW == "MATH_OVERFLOW"
BC_ERROR_MATH_DIVIDE_BY_ZERO == "MATH_DIVIDE_BY_ZERO"

\* The sentinel bc_num_cmp returns when interrupted (SSIZE_MIN in the source).
BC_NUM_CMP_SIGNAL == 0 - Pow2(30)

(***************************************************************************)
(* Buffers.  The buffer of a number is its whole allocation: Len(n.num) is *)
(* the C field cap.  A cell malloc or realloc handed out and the code has  *)
(* not written yet holds Junk.                                             *)
(***************************************************************************)
Junk == BC_BASE_POW - 3

Fill(n, v) == [i \in 1..n |-> v]

Zeros(n) == Fill(n, 0)

\* memmove/memcpy source: cells [from, from + n) of a buffer, C indices.
Cells(buf, from, n) == SubSeq(buf, from + 1, from + n)

\* The buffer with cells [at, at + Len(src)) overwritten by src.  The write
\* has to fit the allocation.
Store(buf, at, src) ==
    IF at + Len(src) > Len(buf) THEN buf[at + Len(src)]
    ELSE SubSeq(buf, 1, at) \o src \o
         SubSeq(buf, at + Len(src) + 1, Len(buf))

\* The active cells of a number.
Digits(n) == SubSeq(n.num, 1, n.len)

(***************************************************************************)
(* Small helpers of the number container.                                  *)
(***************************************************************************)
bc_num_neg(n, neg) == IF neg THEN 0 - n ELSE n

bc_num_cmpZero(n) == bc_num_neg(IF n.len # 0 THEN 1 ELSE 0, n.neg)

bc_num_int(n) == IF n.len # 0 THEN n.len - n.rdx ELSE 0

bc_num_expand(n, req) ==
    LET r == IF req >= BC_NUM_DEF_SIZE THEN req ELSE BC_NUM_DEF_SIZE
    IN IF r > Len(n.num)
       THEN [n EXCEPT !.num = n.num \o Fill(r - Len(n.num), Junk)]
       ELSE n

bc_num_setToZero(n, sc) ==
    [n EXCEPT !.scale = sc, !.len = 0, !.rdx = 0, !.neg = FALSE]

bc_num_zero(n) == bc_num_setToZero(n, 0)

bc_num_one(n) ==
    [bc_num_setToZero(n, 0) EXCEPT !.len = 1, !.num = Store(n.num, 0, <<1>>)]

\* bc_num_setup over a buffer of cap cells.
bc_num_setup(buf) ==
    [num |-> buf, len |-> 0, rdx |-> 0, scale |-> 0, neg |-> FALSE]

bc_num_init(req) ==
    bc_num_setup(Fill(IF req >= BC_NUM_DEF_SIZE THEN req ELSE BC_NUM_DEF_SIZE,
                      Junk))

\* bc_num_free that gives nothing back.
bc_num_free_kept(n) == n

\* bc_num_free(num): the cells go back to the allocator, and the number is
\* left with a pointer to none.
bc_num_free(n) == [n EXCEPT !.num = <<>>]

bc_num_copy(dst, src) ==
    LET e == bc_num_expand(dst, src.len)
    IN [num |-> Store(e.num, 0, Digits(src)), len |-> src.len,
        rdx |-> src.rdx, scale |-> src.scale, neg |-> src.neg]

bc_num_createCopy(src) == bc_num_copy(bc_num_init(src.len), src)

RECURSIVE CleanLen(_, _)
CleanLen(num, len) ==
    IF len # 0 /\ num[len] = 0 THEN CleanLen(num, len - 1) ELSE len

bc_num_clean(n) ==
    LET l == CleanLen(n.num, n.len)
    IN IF l = 0 THEN [n EXCEPT !.len = 0, !.neg = FALSE]
       ELSE IF l < n.rdx THEN [n EXCEPT !.len = n.rdx]
       ELSE [n EXCEPT !.len = l]

RECURSIVE bc_num_log10(_)
bc_num_log10(i) == IF i = 0 THEN 0 ELSE 1 + bc_num_log10(i \div BC_BASE)

bc_num_zeroDigits(cell) == BC_BASE_DIGS - bc_num_log10(cell)

bc_num_intDigits(n) ==
    LET digits == bc_num_int(n) * BC_BASE_DIGS
    IN IF digits > 0 THEN digits - bc_num_zeroDigits(n.num[n.len]) ELSE digits

(***************************************************************************)
(* Comparison.                                                             *)
(***************************************************************************)
\* The index the loop of bc_num_compare stops at, plus one, and the
\* difference found there: <<i + 1, c>>.
RECURSIVE CompareScan(_, _, _, _, _)
CompareScan(x, xo, y, yo, i) ==
    IF i = 0 THEN <<0, 0>>
    ELSE LET df == x[xo + i] - y[yo + i]
         IN IF df # 0 THEN <<i, df>> ELSE CompareScan(x, xo, y, yo, i - 1)

\* bc_num_compare(x + xo, y + yo, len)
bc_num_compare(x, xo, y, yo, len) ==
    IF BC_SIG THEN BC_NUM_CMP_SIGNAL
    ELSE LET r == CompareScan(x, xo, y, yo, len)
         IN bc_num_neg(r[1], r[2] < 0)

RECURSIVE AnyNonzero(_, _)
AnyNonzero(buf, n) ==
    IF n = 0 THEN FALSE ELSE buf[n] # 0 \/ AnyNonzero(buf, n - 1)

bc_num_cmp(x, y) ==
    IF BC_NUM_ZERO(x) THEN bc_num_neg(IF y.len # 0 THEN 1 ELSE 0, ~y.neg)
    ELSE IF BC_NUM_ZERO(y) THEN bc_num_cmpZero(x)
    ELSE IF x.neg /\ ~y.neg THEN 0 - 1
    ELSE IF ~x.neg /\ y.neg THEN 1
    ELSE
      LET neg == x.neg
          b_int == bc_num_int(y)
          a_int == bc_num_int(x) - b_int
          a_max == x.rdx > y.rdx
          min == IF a_max THEN y.rdx ELSE x.rdx
          diff == IF a_max THEN x.rdx - y.rdx ELSE y.rdx - x.rdx
          max_num == IF a_max THEN x.num ELSE y.num
          min_num == IF a_max THEN y.num ELSE x.num
          cmp == bc_num_compare(max_num, diff, min_num, 0, b_int + min)
      IN IF a_int # 0 THEN a_int
         ELSE IF cmp = BC_NUM_CMP_SIGNAL THEN cmp
         ELSE IF cmp # 0 THEN bc_num_neg(cmp, (~a_max) = (~neg))
         ELSE IF BC_NO_SIG /\ AnyNonzero(max_num, diff)
              THEN bc_num_neg(1, (~a_max) = (~neg))
         ELSE IF BC_SIG THEN BC_NUM_CMP_SIGNAL ELSE 0

(***************************************************************************)
(* Scale changes.                                                          *)
(***************************************************************************)
bc_num_truncate(n, places) ==
    IF places = 0 THEN n
    ELSE
      LET places_rdx == n.rdx - BC_NUM_RDX(n.scale - places)
          nscale == n.scale - places
          nrdx == n.rdx - places_rdx
          m == [n EXCEPT !.scale = nscale, !.rdx = nrdx]
      IN IF BC_NUM_NONZERO(n)
         THEN LET md == nscale % BC_BASE_DIGS
                  pow == bc_num_pow10(IF md # 0 THEN BC_BASE_DIGS - md ELSE 0)
                  nlen == n.len - places_rdx
                  moved == Store(n.num, 0, Cells(n.num, places_rdx, nlen))
                  cleared == IF nlen # 0
                             THEN Store(moved, 0, <<moved[1] - (moved[1] % pow)>>)
                             ELSE moved
              IN bc_num_clean([m EXCEPT !.len = nlen, !.num = cleared])
         ELSE m

bc_num_extend(n, places) ==
    IF places = 0 THEN n
    ELSE
      LET places_rdx == BC_NUM_RDX(places + n.scale) - n.rdx
          e == bc_num_expand(n, n.len + places_rdx)
          moved == IF places_rdx # 0
                   THEN Store(Store(e.num, places_rdx, Digits(n)), 0,
                              Zeros(places_rdx))
                   ELSE n.num
      IN [n EXCEPT !.num = moved, !.rdx = n.rdx + places_rdx,
                   !.scale = n.scale + places, !.len = n.len + places_rdx]

\* bc_num_retireMul that extends to the scale and never truncates to it.
bc_num_retireMul_extendOnly(n, sc, neg1, neg2) ==
    LET m == IF n.scale < sc THEN bc_num_extend(n, sc - n.scale) ELSE n
        k == bc_num_clean(m)
    IN IF BC_NUM_NONZERO(k) THEN [k EXCEPT !.neg = (neg1 # neg2)] ELSE k

bc_num_retireMul(n, sc, neg1, neg2) ==
    LET m == IF n.scale < sc THEN bc_num_extend(n, sc - n.scale)
             ELSE bc_num_truncate(n, n.scale - sc)
        k == bc_num_clean(m)
    IN IF BC_NUM_NONZERO(k) THEN [k EXCEPT !.neg = (neg1 # neg2)] ELSE k

(***************************************************************************)
(* Digit-array primitives.  A C pointer into a buffer is the buffer and an *)
(* offset: x + xo.  Each returns the status and the buffer written.        *)
(***************************************************************************)
\* bc_num_addDigit over a run of cells: the sums of xs and ys with the carry
\* chained through, followed by the carry out.
RECURSIVE AddCells(_, _, _)
AddCells(xs, ys, carry) ==
    IF xs = <<>> THEN <<carry>>
    ELSE LET in == xs[1] + ys[1] + carry
         IN <<in % BC_BASE_POW>> \o
            AddCells(Tail(xs), Tail(ys), in \div BC_BASE_POW)

\* The second loop of bc_num_addArrays: the carry runs up the buffer.
RECURSIVE CarryUp(_, _, _)
CarryUp(buf, k, carry) ==
    IF carry = 0 THEN buf
    ELSE LET in == buf[k] + carry
         IN CarryUp([buf EXCEPT ![k] = in % BC_BASE_POW], k + 1,
                    in \div BC_BASE_POW)

bc_num_addArrays(x, xo, y, yo, len) ==
    IF BC_SIG THEN [s |-> BC_STATUS_SIGNAL, buf |-> x]
    ELSE LET sum == AddCells(Cells(x, xo, len), Cells(y, yo, len), 0)
             low == Store(x, xo, SubSeq(sum, 1, len))
         IN [s |-> BC_STATUS_SUCCESS,
             buf |-> CarryUp(low, xo + len + 1, sum[len + 1])]

\* The inner loop of bc_num_subArrays: while cell k is negative, add the
\* base to it and take one from the next cell.
RECURSIVE Borrow(_, _)
Borrow(buf, k) ==
    IF buf[k] < 0
    THEN Borrow([buf EXCEPT ![k] = @ + BC_BASE_POW, ![k + 1] = @ - 1], k + 1)
    ELSE buf

\* The outer loop of bc_num_subArrays: a[i] -= b[i], then the inner loop when
\* the cell went negative.
RECURSIVE SubLoop(_, _, _, _, _, _)
SubLoop(x, xo, y, yo, len, i) ==
    IF i < len
    THEN LET df == x[xo + i + 1] - y[yo + i + 1]
             x1 == [x EXCEPT ![xo + i + 1] = df]
         IN IF df < 0
            THEN SubLoop(Borrow(x1, xo + i + 1), xo, y, yo, len, i + 1)
            ELSE SubLoop(x1, xo, y, yo, len, i + 1)
    ELSE x

bc_num_subArrays(x, xo, y, yo, len) ==
    IF BC_SIG THEN [s |-> BC_STATUS_SIGNAL, buf |-> x]
    ELSE [s |-> BC_STATUS_SUCCESS, buf |-> SubLoop(x, xo, y, yo, len, 0)]

\* The loop of bc_num_mulArray: the cells of xs times bd, then the carry.
RECURSIVE MulCells(_, _, _)
MulCells(xs, bd, carry) ==
    IF xs = <<>> THEN <<carry>>
    ELSE LET in == xs[1] * bd + carry
         IN <<in % BC_BASE_POW>> \o
            MulCells(Tail(xs), bd, in \div BC_BASE_POW)

\* bc_num_mulArray that counts the cell of the carry whether or not there
\* is a carry.
bc_num_mulArray_carryCell(x, bd, cc) ==
    LET e == IF x.len + 1 > Len(cc.num) THEN bc_num_expand(cc, x.len + 1)
             ELSE cc
        z == Zeros(Len(e.num))
    IN IF BC_SIG THEN [s |-> BC_STATUS_SIGNAL, n |-> [e EXCEPT !.num = z]]
       ELSE [s |-> BC_STATUS_SUCCESS,
             n |-> [e EXCEPT !.num = Store(z, 0, MulCells(Digits(x), bd, 0)),
                             !.len = x.len + 1]]

\* bc_num_mulArray that does not read the signal flag.
bc_num_mulArray_noPoll(x, bd, cc) ==
    LET e == IF x.len + 1 > Len(cc.num) THEN bc_num_expand(cc, x.len + 1)
             ELSE cc
        prod == MulCells(Digits(x), bd, 0)
    IN [s |-> BC_STATUS_SUCCESS,
        n |-> [e EXCEPT !.num = Store(Zeros(Len(e.num)), 0, prod),
                        !.len = x.len +
                                (IF prod[x.len + 1] # 0 THEN 1 ELSE 0)]]

\* bc_num_mulArray(a, b, c)
bc_num_mulArray(x, bd, cc) ==
    LET e == IF x.len + 1 > Len(cc.num) THEN bc_num_expand(cc, x.len + 1)
             ELSE cc
        z == Zeros(Len(e.num))
    IN IF BC_SIG THEN [s |-> BC_STATUS_SIGNAL, n |-> [e EXCEPT !.num = z]]
       ELSE LET prod == MulCells(Digits(x), bd, 0)
            IN [s |-> BC_STATUS_SUCCESS,
                n |-> [e EXCEPT !.num = Store(z, 0, prod),
                                !.len = x.len +
                                        (IF prod[x.len + 1] # 0 THEN 1 ELSE 0)]]

\* The loop of bc_num_divArray, from the top cell i down: the quotient cells
\* (most significant first) followed by the remainder.
RECURSIVE DivCells(_, _, _, _)
DivCells(xs, i, bd, carry) ==
    IF i = 0 THEN <<carry>>
    ELSE LET in == xs[i] + carry * BC_BASE_POW
         IN <<in \div bd>> \o DivCells(xs, i - 1, bd, in % bd)

RECURSIVE Reverse(_)
Reverse(s) == IF s = <<>> THEN <<>> ELSE Reverse(Tail(s)) \o <<s[1]>>

bc_num_divArray(x, bd, cc) ==
    IF BC_SIG
    THEN [s |-> BC_STATUS_SIGNAL, n |-> bc_num_clean([cc EXCEPT !.len = x.len]),
          rem |-> 0]
    ELSE LET q == DivCells(x.num, x.len, bd, 0)
             w == Store(cc.num, 0, Reverse(SubSeq(q, 1, x.len)))
         IN [s |-> BC_STATUS_SUCCESS,
             n |-> bc_num_clean([cc EXCEPT !.num = w, !.len = x.len]),
             rem |-> q[x.len + 1]]

(***************************************************************************)
(* Shifts by decimal places.                                               *)
(***************************************************************************)
\* The loop of bc_num_shift, v being [ptr, i, carry]: from cell v.i (C index
\* v.i - 1) down to cell 0.
RECURSIVE ShiftCells(_, _, _)
ShiftCells(v, pow, dig) ==
    IF v.i = 0 THEN v.ptr
    ELSE LET in == v.ptr[v.i]
             temp == v.carry * dig
         IN ShiftCells([ptr |-> Store(v.ptr, v.i - 1,
                                      <<(in \div pow) + temp>>),
                        i |-> v.i - 1, carry |-> in % pow], pow, dig)

bc_num_shift(n, dg) ==
    IF BC_SIG THEN [s |-> BC_STATUS_SIGNAL, n |-> n]
    ELSE [s |-> BC_STATUS_SUCCESS,
          n |-> [n EXCEPT !.num = ShiftCells([ptr |-> n.num, i |-> n.len,
                                              carry |-> 0], bc_num_pow10(dg),
                                             bc_num_pow10(BC_BASE_DIGS - dg))]]

\* The number of leading (least significant) zero cells bc_num_shiftZero
\* steps over.
RECURSIVE ZeroCells(_, _)
ZeroCells(cells, i) ==
    IF i < Len(cells) /\ cells[i + 1] = 0 THEN ZeroCells(cells, i + 1) ELSE i

\* The end of bc_num_shiftLeft and bc_num_shiftRight: r is the result of
\* the shift inside the cells.
ShiftEnd(r) ==
    [s |-> IF BC_SIG /\ r.s = BC_STATUS_SUCCESS THEN BC_STATUS_SIGNAL
           ELSE r.s,
     n |-> bc_num_clean(r.n)]

\* bc_num_shiftLeft after the cells moved: the scale drops by places and
\* the digits move inside the cells by BC_BASE_DIGS - dg.
ShiftLeftScale(moved, sc, places, dg) ==
    LET scaled == IF places > sc
                  THEN [moved EXCEPT !.scale = 0, !.rdx = 0]
                  ELSE [moved EXCEPT !.scale = sc - places,
                                     !.rdx = BC_NUM_RDX(sc - places)]
    IN ShiftEnd(IF dg # 0 THEN bc_num_shift(scaled, BC_BASE_DIGS - dg)
                ELSE [s |-> BC_STATUS_SUCCESS, n |-> scaled])

\* bc_num_shiftLeft moving the cells of n up by places_rdx.
ShiftLeftCells(n, places, dg, places_rdx) ==
    IF places_rdx # 0
    THEN LET e == bc_num_expand(n, n.len + places_rdx)
         IN ShiftLeftScale(
                [e EXCEPT !.num = Store(Store(e.num, places_rdx, Digits(n)),
                                        0, Zeros(places_rdx)),
                          !.len = n.len + places_rdx],
                n.scale, places, dg)
    ELSE ShiftLeftScale(n, n.scale, places, dg)

\* bc_num_shiftLeft of a nonzero n by dg digits and some cells; mod is the
\* count of digits in the last cell of the fraction.
ShiftLeftDigits(n, places, dg, mod) ==
    ShiftLeftCells(
        n, places, dg,
        IF n.scale # 0
        THEN IF n.rdx >= BC_NUM_RDX(places)
             THEN (IF mod + (IF dg # 0 THEN BC_BASE_DIGS - dg ELSE 0)
                         > BC_BASE_DIGS
                   THEN 1 ELSE 0)
             ELSE BC_NUM_RDX(places) - n.rdx
        ELSE BC_NUM_RDX(places))

bc_num_shiftLeft(n, places) ==
    IF places = 0 THEN [s |-> BC_STATUS_SUCCESS, n |-> n]
    ELSE IF BC_NUM_ZERO(n)
    THEN [s |-> BC_STATUS_SUCCESS,
          n |-> [n EXCEPT !.scale = IF n.scale >= places
                                    THEN n.scale - places ELSE 0]]
    ELSE ShiftLeftDigits(n, places, places % BC_BASE_DIGS,
                         IF n.scale % BC_BASE_DIGS # 0
                         THEN n.scale % BC_BASE_DIGS ELSE BC_BASE_DIGS)

\* bc_num_shiftRight after the zero cells were added on top, giving z.
ShiftRightScale(z, sc, places, dg) ==
    LET r == IF dg # 0 THEN bc_num_shift(z, dg)
             ELSE [s |-> BC_STATUS_SUCCESS, n |-> z]
    IN ShiftEnd([s |-> r.s,
                 n |-> [r.n EXCEPT !.scale = sc + places,
                                   !.rdx = BC_NUM_RDX(sc + places)]])

\* bc_num_shiftRight expanding x, the extended n, by expand cells.
ShiftRightCells(x, sc, places, dg, expand) ==
    LET e == bc_num_expand(x, expand + x.len)
    IN ShiftRightScale([e EXCEPT !.num = Store(e.num, x.len, Zeros(expand)),
                                 !.len = x.len + expand,
                                 !.scale = 0, !.rdx = 0],
                       sc, places, dg)

\* bc_num_shiftRight of a nonzero n; over says that the digits shifted in
\* the last cell spill into a new cell.
ShiftRightDigits(n, places, dg, over, int_len) ==
    LET expand == IF over THEN BC_NUM_RDX(places) - 1 ELSE BC_NUM_RDX(places)
    IN ShiftRightCells(
           bc_num_extend(n, (IF over THEN 1 ELSE 0) * BC_BASE_DIGS),
           n.scale, places, dg,
           IF expand > int_len THEN expand - int_len ELSE 0)

bc_num_shiftRight(n, places) ==
    IF places = 0 THEN [s |-> BC_STATUS_SUCCESS, n |-> n]
    ELSE IF BC_NUM_ZERO(n)
    THEN [s |-> BC_STATUS_SUCCESS,
          n |-> bc_num_expand([n EXCEPT !.scale = n.scale + places],
                              BC_NUM_RDX(n.scale + places))]
    ELSE ShiftRightDigits(
             n, places, places % BC_BASE_DIGS,
             (IF n.scale % BC_BASE_DIGS # 0
              THEN n.scale % BC_BASE_DIGS ELSE BC_BASE_DIGS)
                 + (places % BC_BASE_DIGS) > BC_BASE_DIGS,
             bc_num_int(n))

(***************************************************************************)
(* Addition and subtraction.                                               *)
(***************************************************************************)
bc_num_a(x, y, cc, sub) ==
    IF BC_NUM_ZERO(x)
    THEN LET k == bc_num_copy(cc, y)
         IN [s |-> BC_STATUS_SUCCESS,
             n |-> IF sub # 0 /\ BC_NUM_NONZERO(k)
                   THEN [k EXCEPT !.neg = ~k.neg] ELSE k]
    ELSE IF BC_NUM_ZERO(y)
    THEN [s |-> BC_STATUS_SUCCESS, n |-> bc_num_copy(cc, x)]
    ELSE
      LET min_rdx == BC_MIN(x.rdx, y.rdx)
          a_big == x.rdx > y.rdx
          diff == IF a_big THEN x.rdx - y.rdx ELSE y.rdx - x.rdx
          ptr0 == IF a_big THEN x.num ELSE y.num
          ao == IF a_big THEN diff ELSE 0
          bo == IF a_big THEN 0 ELSE diff
          a_int == bc_num_int(x)
          b_int == bc_num_int(y)
          min_int == IF a_int > b_int THEN b_int ELSE a_int
          max == IF a_int > b_int THEN a_int ELSE b_int
          ptr == IF a_int > b_int THEN x.num ELSE y.num
          po == IF a_int > b_int THEN ao ELSE bo
          n1 == IF BC_NO_SIG THEN min_rdx + min_int ELSE 0
          n2 == IF BC_NO_SIG THEN max + min_rdx ELSE 0
          sum1 == AddCells(Cells(x.num, ao, n1), Cells(y.num, bo, n1), 0)
          sum2 == AddCells(Cells(ptr, po + n1, n2 - n1), Zeros(n2 - n1),
                           sum1[n1 + 1])
          carry == sum2[n2 - n1 + 1]
          body == Cells(ptr0, 0, diff) \o SubSeq(sum1, 1, n1) \o
                  SubSeq(sum2, 1, n2 - n1) \o
                  (IF carry # 0 THEN <<carry>> ELSE <<>>)
      IN [s |-> IF BC_SIG THEN BC_STATUS_SIGNAL ELSE BC_STATUS_SUCCESS,
          n |-> [num |-> Store(cc.num, 0, body), len |-> Len(body),
                 rdx |-> BC_MAX(x.rdx, y.rdx),
                 scale |-> BC_MAX(x.scale, y.scale), neg |-> x.neg]]

\* The end of bc_num_s: subtrahend leaves e, the copy of the minuend, from
\* cell start on.
SubCells(e, subtrahend, start) ==
    LET r == bc_num_subArrays(e.num, start, subtrahend.num, 0, subtrahend.len)
    IN [s |-> r.s, n |-> bc_num_clean([e EXCEPT !.num = r.buf])]

\* bc_num_s with k the copy of the minuend in c, under its sign.
SubExtend(k, subtrahend) ==
    IF k.scale < subtrahend.scale
    THEN SubCells(bc_num_extend(k, subtrahend.scale - k.scale), subtrahend, 0)
    ELSE SubCells(k, subtrahend, k.rdx - subtrahend.rdx)

\* bc_num_s of nonzero operands whose magnitudes compare as cmp.
SubMagnitude(x, y, cc, sub, cmp) ==
    IF cmp = BC_NUM_CMP_SIGNAL THEN [s |-> BC_STATUS_SIGNAL, n |-> cc]
    ELSE IF cmp = 0
    THEN [s |-> BC_STATUS_SUCCESS,
          n |-> bc_num_setToZero(cc, BC_MAX(x.rdx, y.rdx))]
    ELSE IF cmp > 0
    THEN SubExtend([bc_num_copy(cc, x) EXCEPT !.neg = x.neg], y)
    ELSE SubExtend([bc_num_copy(cc, y) EXCEPT
                        !.neg = IF sub # 0 THEN ~y.neg ELSE y.neg], x)

bc_num_s(x, y, cc, sub) ==
    IF BC_NUM_ZERO(x)
    THEN LET k == bc_num_copy(cc, y)
         IN [s |-> BC_STATUS_SUCCESS,
             n |-> IF sub # 0 /\ BC_NUM_NONZERO(k)
                   THEN [k EXCEPT !.neg = ~k.neg] ELSE k]
    ELSE IF BC_NUM_ZERO(y)
    THEN [s |-> BC_STATUS_SUCCESS, n |-> bc_num_copy(cc, x)]
    ELSE SubMagnitude(x, y, cc, sub,
                      bc_num_cmp([x EXCEPT !.neg = FALSE],
                                 [y EXCEPT !.neg = FALSE]))

bc_num_addReq(x, y) ==
    BC_MAX(x.rdx, y.rdx) + BC_MAX(bc_num_int(x), bc_num_int(y)) + 1

RECURSIVE Call(_, _)

\* bc_num_binary with c distinct from a and b (init = FALSE), or with c
\* being a or b (init = TRUE): then the operands are read from the copy
\* num2 of the struct and c gets a new buffer.
bc_num_binary(x, y, cc, sc, op_f, req, init) ==
    Call(op_f, <<x, y, IF init THEN bc_num_init(req) ELSE bc_num_expand(cc, req),
                 sc>>)

bc_num_add(x, y, cc, init) ==
    IF (~x.neg) = (~y.neg)
    THEN bc_num_binary(x, y, cc, 0, "bc_num_a", bc_num_addReq(x, y), init)
    ELSE bc_num_binary(x, y, cc, 0, "bc_num_s", bc_num_addReq(x, y), init)

bc_num_sub(x, y, cc, init) ==
    IF (~x.neg) = (~y.neg)
    THEN bc_num_binary(x, y, cc, 1, "bc_num_s", bc_num_addReq(x, y), init)
    ELSE bc_num_binary(x, y, cc, 1, "bc_num_a", bc_num_addReq(x, y), init)

(***************************************************************************)
(* Multiplication.                                                         *)
(***************************************************************************)
\* The inner loop of bc_num_m_simp: <<sum, carry>> after it.
SimpInner(x, y, j, k, sum, carry) ==
    IF j < x.len /\ k >= 0 /\ k < y.len
    THEN LET s1 == sum + x.num[j + 1] * y.num[k + 1]
         IN IF s1 >= BC_BASE_POW
            THEN Call("SimpInner", <<x, y, j + 1, k - 1, s1 % BC_BASE_POW,
                           carry + s1 \div BC_BASE_POW>>)
            ELSE Call("SimpInner", <<x, y, j + 1, k - 1, s1, carry>>)
    ELSE <<sum, carry>>

\* The outer loop of bc_num_m_simp from cell i: the cells written, followed
\* by the sum left over.
SimpOuter(x, y, i, clen, sum) ==
    IF i = clen THEN <<sum>>
    ELSE LET sidx == i - y.len + 1
             r == Call("SimpInner", <<x, y, BC_MAX(0, sidx), BC_MIN(i, y.len - 1), sum, 0>>)
         IN <<r[1]>> \o Call("SimpOuter", <<x, y, i + 1, clen, r[2]>>)

bc_num_m_simp(x, y, cc) ==
    LET clen == x.len + y.len
        e == bc_num_expand(cc, clen + 1)
        z == Zeros(Len(e.num))
    IN IF BC_SIG
       THEN [s |-> BC_STATUS_SIGNAL, n |-> [e EXCEPT !.num = z, !.len = clen]]
       ELSE LET out == Call("SimpOuter", <<x, y, 0, clen, 0>>)
                sum == out[clen + 1]
            IN [s |-> BC_STATUS_SUCCESS,
                n |-> [e EXCEPT !.num = Store(z, 0, IF sum # 0 THEN out
                                                    ELSE SubSeq(out, 1, clen)),
                                !.len = clen + (IF sum # 0 THEN 1 ELSE 0)]]

\* bc_num_split(n, idx, a, b): the low part a and the high part b.
bc_num_split(n, idx, lo, hi) ==
    IF idx < n.len
    THEN [a |-> bc_num_clean([lo EXCEPT !.len = idx, !.scale = 0, !.rdx = 0,
                                        !.num = Store(lo.num, 0,
                                                      Cells(n.num, 0, idx))]),
          b |-> bc_num_clean([hi EXCEPT !.len = n.len - idx, !.scale = 0,
                                        !.rdx = 0,
                                        !.num = Store(hi.num, 0,
                                                      Cells(n.num, idx,
                                                            n.len - idx))])]
    ELSE [a |-> bc_num_clean(bc_num_copy(lo, n)), b |-> hi]

\* bc_num_shiftZero: the number with its pointer moved past the low zero
\* cells, and how many there were.
bc_num_shiftZero(n) ==
    LET i == ZeroCells(Digits(n), 0)
    IN [n |-> [n EXCEPT !.num = SubSeq(n.num, i + 1, Len(n.num)),
                        !.len = n.len - i],
        i |-> i]

\* bc_num_shiftAddSub(n, a, shift, op), op being bc_num_subArrays (sub) or
\* bc_num_addArrays.
bc_num_shiftAddSub(n, x, shift, sub) ==
    LET o == IF sub THEN bc_num_subArrays(n.num, shift, x.num, 0, x.len)
             ELSE bc_num_addArrays(n.num, shift, x.num, 0, x.len)
    IN [s |-> o.s, n |-> [n EXCEPT !.num = o.buf]]


\* One of the three products of bc_num_k: p * q into a new number of cap
\* cells, cleaned, then added into (or, when signed and the signs differ,
\* subtracted from) the running result r.n at each of the shifts.
KaratsubaAdd(r, z, shifts, sub) ==
    LET o1 == bc_num_shiftAddSub(r.n, z, shifts[1], sub)
    IN IF o1.s # BC_STATUS_SUCCESS \/ Len(shifts) = 1 THEN o1
       ELSE bc_num_shiftAddSub(o1.n, z, shifts[2], sub)

\* The product pr of p and q joins the running result r.
KaratsubaProduct(r, pr, shifts, sub) ==
    IF pr.s # BC_STATUS_SUCCESS THEN [s |-> pr.s, n |-> r.n]
    ELSE KaratsubaAdd(r, bc_num_clean(pr.n), shifts, sub)

KaratsubaTerm(r, p, q, cap, shifts, signed) ==
    IF r.s # BC_STATUS_SUCCESS \/ BC_NUM_ZERO(p) \/ BC_NUM_ZERO(q) THEN r
    ELSE KaratsubaProduct(r, Call("bc_num_m", <<p, q, bc_num_init(cap), 0>>),
                          shifts, signed /\ (p.neg # q.neg))

\* The three products of bc_num_k into c0: z2 = h1 * h2, z0 = l1 * l2 and
\* z1 = m1 * m2.
KaratsubaSum(c0, l1, h1, l2, h2, m1, m2, max, max2) ==
    IF m1.s # BC_STATUS_SUCCESS THEN [s |-> m1.s, n |-> c0]
    ELSE IF m2.s # BC_STATUS_SUCCESS THEN [s |-> m2.s, n |-> c0]
    ELSE KaratsubaTerm(
             KaratsubaTerm(
                 KaratsubaTerm([s |-> BC_STATUS_SUCCESS, n |-> c0],
                               h1, h2, max + 1, <<max2 * 2, max2>>, FALSE),
                 l1, l2, max + 1, <<max2, 0>>, FALSE),
             m1.n, m2.n, max + 1, <<max2>>, TRUE)

\* bc_num_k on the halves l1, h1 of a and l2, h2 of b.
KaratsubaHalves(cc, l1, h1, l2, h2, tmp, max, max2) ==
    LET cmax == (max + 1) + (max + 1) + 1
        e == bc_num_expand(cc, cmax)
    IN KaratsubaSum([e EXCEPT !.len = cmax,
                              !.num = Store(e.num, 0, Zeros(cmax))],
                    l1, h1, l2, h2,
                    Call("bc_num_sub", <<h1, l1, tmp, FALSE>>),
                    Call("bc_num_sub", <<l2, h2, tmp, FALSE>>),
                    max, max2)

\* bc_num_k on the splits sx of a and sy of b.
KaratsubaSplit(cc, sx, sy, tmp, max, max2) ==
    KaratsubaHalves(cc, bc_num_clean(sx.a), bc_num_clean(sx.b),
                    bc_num_clean(sy.a), bc_num_clean(sy.b), tmp, max, max2)

\* bc_num_k of operands long enough to be split at max2 cells.
KaratsubaLong(x, y, cc, max, tmp) ==
    KaratsubaSplit(cc, bc_num_split(x, (max + 1) \div 2, tmp, tmp),
                   bc_num_split(y, (max + 1) \div 2, tmp, tmp),
                   tmp, max, (max + 1) \div 2)

bc_num_k(x, y, cc) ==
    LET aone == BC_NUM_ONE(x)
    IN IF BC_SIG THEN [s |-> BC_STATUS_SIGNAL, n |-> cc]
       ELSE IF BC_NUM_ZERO(x) \/ BC_NUM_ZERO(y)
       THEN [s |-> BC_STATUS_SUCCESS, n |-> cc]
       ELSE IF aone \/ BC_NUM_ONE(y)
       THEN LET k == bc_num_copy(cc, IF aone THEN y ELSE x)
            IN [s |-> BC_STATUS_SUCCESS,
                n |-> IF (aone /\ x.neg) \/ y.neg
                      THEN [k EXCEPT !.neg = ~k.neg] ELSE k]
       ELSE IF x.len < karatsuba_len \/ y.len < karatsuba_len
       THEN bc_num_m_simp(x, y, cc)
       ELSE KaratsubaLong(x, y, cc,
                          BC_MAX(BC_MAX(x.len, y.len), BC_NUM_DEF_SIZE),
                          bc_num_setup(Fill(BC_MAX(BC_MAX(x.len, y.len),
                                                   BC_NUM_DEF_SIZE), Junk)))

\* The end of bc_num_m, after the shift right gave sr.
MulRetire(x, y, scl, sr) ==
    IF sr.s # BC_STATUS_SUCCESS THEN sr
    ELSE [s |-> BC_STATUS_SUCCESS,
          n |-> Call("bc_num_retireMul", <<sr.n, scl, x.neg, y.neg>>)]

\* bc_num_m after the shift left of c gave sl.
MulBack(x, y, scl, sl) ==
    IF sl.s # BC_STATUS_SUCCESS THEN sl
    ELSE MulRetire(x, y, scl,
                   Call("bc_num_shiftRight",
                        <<sl.n, x.rdx * BC_BASE_DIGS + y.rdx * BC_BASE_DIGS>>))

\* bc_num_m after bc_num_k gave kr: c gets back the zero cells that were
\* skipped in the operands.
MulShift(x, y, scl, zero, kr) ==
    IF kr.s # BC_STATUS_SUCCESS THEN kr
    ELSE MulBack(x, y, scl,
                 Call("bc_num_shiftLeft",
                      <<bc_num_expand(kr.n, kr.n.len + zero),
                        zero * BC_BASE_DIGS>>))

\* bc_num_m on the copies za and zb past their low zero cells.
MulKaratsuba(x, y, scl, za, zb, c0) ==
    MulShift(x, y, scl, za.i + zb.i,
             Call("bc_num_k", <<za.n, bc_num_clean(zb.n), c0>>))

\* bc_num_m after the shifts of the copies cpa and cpb gave la and lb.
MulLeft(x, y, c0, scl, la, lb) ==
    IF la.s # BC_STATUS_SUCCESS THEN [s |-> la.s, n |-> c0]
    ELSE IF lb.s # BC_STATUS_SUCCESS THEN [s |-> lb.s, n |-> c0]
    ELSE MulKaratsuba(x, y, scl, bc_num_shiftZero(bc_num_clean(la.n)),
                      bc_num_shiftZero(lb.n), c0)

\* The copy of an operand of bc_num_m, without its sign.
MulCopy(x) ==
    [bc_num_copy(bc_num_init(x.len + x.rdx), x) EXCEPT !.neg = FALSE]

\* bc_num_m of operands that are not both integers with a single cell in
\* one of them.
MulLong(x, y, c0, scl) ==
    MulLeft(x, y, c0, scl,
            Call("bc_num_shiftLeft", <<MulCopy(x), x.rdx * BC_BASE_DIGS>>),
            Call("bc_num_shiftLeft", <<MulCopy(y), y.rdx * BC_BASE_DIGS>>))

\* bc_num_m of an integer of one cell, dig, and the integer operand.
MulDigit(x, y, operand, dig, c0) ==
    LET r == bc_num_mulArray(operand, dig, c0)
    IN IF r.s # BC_STATUS_SUCCESS THEN r
       ELSE [s |-> r.s,
             n |-> [r.n EXCEPT !.scale = operand.scale, !.rdx = operand.rdx,
                               !.neg = (x.neg # y.neg)]]

bc_num_m(x, y, cc, sc) ==
    IF (x.len = 1 \/ y.len = 1) /\ x.rdx = 0 /\ y.rdx = 0
    THEN MulDigit(x, y, IF x.len = 1 THEN y ELSE x,
                  IF x.len = 1 THEN x.num[1] ELSE y.num[1],
                  bc_num_setToZero(cc, 0))
    ELSE MulLong(x, y, bc_num_setToZero(cc, 0),
                 BC_MIN(x.scale + y.scale,
                        BC_MAX(BC_MAX(sc, x.scale), y.scale)))

bc_num_mulReq(x, y, sc) ==
    LET rdx == x.rdx + y.rdx
        max == BC_MAX(BC_NUM_RDX(sc), rdx) + 1
    IN bc_num_int(x) + bc_num_int(y) + max

\* bc_num_mul that gives c its new buffer before the operand that c is has
\* been copied: that operand then reads as the empty number.
bc_num_mul_lostOperand(x, y, cc, sc, init) ==
    LET req == bc_num_mulReq(x, y, sc)
        lost == bc_num_init(req)
    IN bc_num_binary(IF init /\ x = cc THEN lost ELSE x,
                     IF init /\ y = cc THEN lost ELSE y,
                     cc, sc, "bc_num_m", req, init)

bc_num_mul(x, y, cc, sc, init) ==
    bc_num_binary(x, y, cc, sc, "bc_num_m", bc_num_mulReq(x, y, sc), init)

(***************************************************************************)
(* Division.                                                               *)
(***************************************************************************)
bc_num_nonzeroLen(n) == CleanLen(n.num, n.len)

\* bc_num_divCmp without the look at the cell above the divisor's length.
bc_num_divCmp_lowCells(x, xo, y, len) ==
    IF y.len > len THEN 0 - 1 ELSE bc_num_compare(x, xo, y.num, 0, len)

\* bc_num_divCmp(x + xo, y, len)
bc_num_divCmp(x, xo, y, len) ==
    IF y.len > len /\ x[xo + len + 1] # 0
    THEN bc_num_compare(x, xo, y.num, 0, len + 1)
    ELSE IF y.len <= len
    THEN IF x[xo + len + 1] # 0 THEN 1
         ELSE bc_num_compare(x, xo, y.num, 0, len)
    ELSE 0 - 1

\* cpb after bc_num_subArrays(cpb.num, sub.num, sub.len) and bc_num_clean.
DLongTakeSub(cpb, sub) ==
    bc_num_clean([cpb EXCEPT !.num = bc_num_subArrays(cpb.num, 0, sub.num, 0,
                                                      sub.len).buf])

\* The inner while loop of bc_num_d_long: while n < cpb, q -= pow and
\* cpb -= sub.  v is [q, cpb].
DLongLower(v, x, xo, len, sub, pow) ==
    IF bc_num_divCmp(x, xo, v.cpb, len) < 0
    THEN Call("DLongLower", <<[q |-> v.q - pow, cpb |-> DLongTakeSub(v.cpb, sub)],
                    x, xo, len, sub, pow>>)
    ELSE v

\* The end of one turn of the outer while loop of bc_num_d_long, after the
\* inner loop left lo: sub goes back onto cpb and loses a digit.
DLongRestore(v, lo, cpblen) ==
    LET back == bc_num_addArrays(lo.cpb.num, 0, v.sub.num, 0, v.sub.len).buf
        temp == bc_num_copy(v.temp, v.sub)
    IN [q |-> lo.q,
        cpb |-> bc_num_clean([lo.cpb EXCEPT !.num = back, !.len = cpblen]),
        sub |-> bc_num_divArray(temp, 10, v.sub).n,
        temp |-> temp]

\* What follows the inner loop in one turn of the outer loop.
DLongRefineNext(v, lo, x, xo, len, npow, cpblen) ==
    IF npow # 0
    THEN Call("DLongRefine", <<DLongRestore(v, lo, cpblen), x, xo, len, npow, cpblen>>)
    ELSE [q |-> lo.q, cpb |-> lo.cpb, sub |-> v.sub, temp |-> v.temp]

\* The outer while loop of bc_num_d_long, one decimal digit of q at a time.
\* v is [q, cpb, sub, temp].
DLongRefine(v, x, xo, len, pow, cpblen) ==
    IF pow > 0
    THEN DLongRefineNext(v,
                         Call("DLongLower", <<[q |-> v.q,
                                     cpb |-> DLongTakeSub(v.cpb, v.sub)],
                                    x, xo, len, v.sub, pow>>),
                         x, xo, len, pow \div BC_BASE, cpblen)
    ELSE v

\* The refinement of the guess q of a cell of the quotient, from the
\* products cpb = b * q and sub = b * pow.
DLongGuess(v, x, xo, len, q, pow, cpb, sub) ==
    LET r == Call("DLongRefine", <<[q |-> q, cpb |-> cpb, sub |-> sub, temp |-> v.temp],
                         x, xo, len, pow, cpb.len>>)
    IN [r EXCEPT !.q = r.q - 1]

\* The guess of a cell of the quotient from the two top cells of the window.
DLongEstimate(v, y, len, i, q) ==
    DLongGuess(v, v.a, i, len, q, bc_num_pow10(bc_num_log10(q) - 1),
               bc_num_mulArray(y, q, v.cpb).n,
               bc_num_mulArray(y, bc_num_pow10(bc_num_log10(q) - 1), v.sub).n)

\* The cell q of the quotient at i and the temporaries after it, for the
\* outcome cmp of the comparison of the window with the divisor.
DLongCell(v, y, len, i, divisor, cmp) ==
    IF cmp = 0
    THEN [q |-> 1, cpb |-> bc_num_mulArray(y, 1, v.cpb).n,
          sub |-> v.sub, temp |-> v.temp]
    ELSE IF cmp > 0
    THEN LET dividend == v.a[i + len + 1] * BC_BASE_POW + v.a[i + len]
             q0 == dividend \div divisor + 1
         IN DLongEstimate(v, y, len, i,
                          IF q0 > BC_BASE_POW THEN BC_BASE_POW ELSE q0)
    ELSE [q |-> 0, cpb |-> v.cpb, sub |-> v.sub, temp |-> v.temp]

\* The end of one turn of the for loop: q times the divisor leaves the
\* window, and q is stored.
DLongStore(v, w, len, i) ==
    LET na == IF w.q # 0
              THEN bc_num_subArrays(v.a, i, w.cpb.num, 0, len)
              ELSE [s |-> BC_STATUS_SUCCESS, buf |-> v.a]
    IN [s |-> na.s, a |-> na.buf, c |-> Store(v.c, i, <<w.q>>),
        cpb |-> w.cpb, sub |-> w.sub, temp |-> w.temp]

\* The for loop of bc_num_d_long from cell i down to rdx.  v is
\* [s, a, c, cpb, sub, temp]: the status, the dividend's and the quotient's
\* buffers and the three temporaries.
DLongLoop(v, y, len, i, rdx, divisor) ==
    IF v.s # BC_STATUS_SUCCESS \/ i < 0 \/ i < rdx THEN v
    ELSE Call("DLongLoop", <<DLongStore(v,
                              DLongCell(v, y, len, i, divisor,
                                        bc_num_divCmp(v.a, i, y, len)),
                              len, i),
                   y, len, i - 1, rdx, divisor>>)

\* The quotient c before the loop: the cells from end on are zero.
DLongOutput(x, e, end) ==
    [e EXCEPT !.num = Store(e.num, end, Zeros(Len(e.num) - end)),
              !.rdx = x.rdx, !.scale = x.scale, !.len = x.len]

\* bc_num_d_long from its test of the signal on.
DLongRun(x, y, c0, tmp, sc) ==
    IF BC_SIG THEN [s |-> BC_STATUS_SIGNAL, n |-> c0]
    ELSE LET v == Call("DLongLoop", <<[s |-> BC_STATUS_SUCCESS, a |-> x.num,
                             c |-> c0.num, cpb |-> tmp, sub |-> tmp,
                             temp |-> tmp],
                            y, y.len, x.len - y.len - 1,
                            c0.rdx - BC_NUM_RDX(sc), y.num[y.len]>>)
         IN [s |-> v.s, n |-> [c0 EXCEPT !.num = v.c]]

bc_num_d_long(x, y, cc, sc) ==
    DLongRun(x, y, DLongOutput(x, bc_num_expand(cc, x.len), x.len - y.len),
             bc_num_init(y.len + 1), sc)

\* The copy cpa of the dividend, extended to the length of the divisor.
DivDividend(x, y, sc) ==
    LET cpa0 == bc_num_copy(bc_num_init(bc_num_mulReq(x, y, sc)), x)
    IN IF y.len > cpa0.len
       THEN bc_num_extend(bc_num_expand(cpa0, y.len + 2),
                          (y.len - cpa0.len) * BC_BASE_DIGS)
       ELSE cpa0

\* cpa with its point moved by the scale of the divisor and by the scale
\* asked for.
DivScaled(cpa1, y, sc) ==
    LET cpa2 == bc_num_extend([cpa1 EXCEPT !.scale = cpa1.rdx * BC_BASE_DIGS],
                              y.scale)
        rdx3 == cpa2.rdx - BC_NUM_RDX(y.scale)
        cpa3 == [cpa2 EXCEPT !.rdx = rdx3, !.scale = rdx3 * BC_BASE_DIGS]
    IN IF sc > cpa3.scale
       THEN LET t == bc_num_extend(cpa3, sc)
            IN [t EXCEPT !.scale = t.rdx * BC_BASE_DIGS]
       ELSE cpa3

\* cpa with the extra zero cell in front.
DivPadded(cpa4) ==
    LET cpa5 == IF Len(cpa4.num) = cpa4.len
                THEN bc_num_expand(cpa4, cpa4.len + 1) ELSE cpa4
        cpa6 == [cpa5 EXCEPT !.num = Store(cpa5.num, cpa5.len, <<0>>),
                             !.len = cpa5.len + 1]
    IN IF cpa6.rdx = cpa6.len
       THEN [cpa6 EXCEPT !.len = bc_num_nonzeroLen(cpa6)] ELSE cpa6

\* The copy cpb of the divisor, as an integer.
DivDivisor(y) ==
    LET cpb0 == bc_num_createCopy(y)
        cpb1 == IF cpb0.rdx = cpb0.len
                THEN [cpb0 EXCEPT !.len = bc_num_nonzeroLen(cpb0)] ELSE cpb0
    IN [cpb1 EXCEPT !.scale = 0, !.rdx = 0]

\* The end of bc_num_d after bc_num_d_long returned r.
DivRetire(r, sc, xneg, yneg) ==
    IF r.s = BC_STATUS_SUCCESS
    THEN [s |-> IF BC_SIG THEN BC_STATUS_SIGNAL ELSE BC_STATUS_SUCCESS,
          n |-> Call("bc_num_retireMul", <<r.n, sc, xneg, yneg>>)]
    ELSE r

\* bc_num_d past its test of the divisor.
DivNonzero(x, y, cc, sc) ==
    IF BC_NUM_ZERO(x)
    THEN [s |-> BC_STATUS_SUCCESS, n |-> bc_num_setToZero(cc, sc)]
    ELSE IF BC_NUM_ONE(y)
    THEN [s |-> BC_STATUS_SUCCESS,
          n |-> Call("bc_num_retireMul", <<bc_num_copy(cc, x), sc, x.neg, y.neg>>)]
    ELSE IF x.rdx = 0 /\ y.rdx = 0 /\ y.len = 1 /\ sc = 0
    THEN LET r == bc_num_divArray(x, y.num[1], cc)
         IN [s |-> r.s, n |-> Call("bc_num_retireMul", <<r.n, sc, x.neg, y.neg>>)]
    ELSE DivRetire(Call("bc_num_d_long",
                        <<DivPadded(DivScaled(DivDividend(x, y, sc), y, sc)),
                          DivDivisor(y), cc, sc>>),
                   sc, x.neg, y.neg)

\* bc_num_d with the test of the dividend ahead of the test of the divisor.
bc_num_d_dividendFirst(x, y, cc, sc) ==
    IF BC_NUM_ZERO(x)
    THEN [s |-> BC_STATUS_SUCCESS, n |-> bc_num_setToZero(cc, sc)]
    ELSE IF BC_NUM_ZERO(y)
    THEN [s |-> BC_ERROR_MATH_DIVIDE_BY_ZERO, n |-> cc]
    ELSE DivNonzero(x, y, cc, sc)

bc_num_d(x, y, cc, sc) ==
    IF BC_NUM_ZERO(y) THEN [s |-> BC_ERROR_MATH_DIVIDE_BY_ZERO, n |-> cc]
    ELSE DivNonzero(x, y, cc, sc)

\* bc_num_r that leaves the remainder the sign bc_num_retireMul gives it.
bc_num_r_retiredSign(x, y, cc, dd, sc, ts) ==
    IF BC_NUM_ZERO(y)
    THEN [s |-> BC_ERROR_MATH_DIVIDE_BY_ZERO, c |-> cc, d |-> dd]
    ELSE IF BC_NUM_ZERO(x)
    THEN [s |-> BC_STATUS_SUCCESS, c |-> bc_num_setToZero(cc, ts),
          d |-> bc_num_setToZero(dd, ts)]
    ELSE
      LET temp == bc_num_init(Len(dd.num))
          q == Call("bc_num_d", <<x, y, cc, sc>>)
          sc2 == IF sc # 0 THEN ts + 1 ELSE sc
          m == Call("bc_num_m", <<q.n, y, temp, sc2>>)
          df == Call("bc_num_sub", <<x, m.n, dd, FALSE>>)
          d1 == IF ts > df.n.scale /\ BC_NUM_NONZERO(df.n)
                THEN bc_num_extend(df.n, ts - df.n.scale) ELSE df.n
      IN IF q.s # BC_STATUS_SUCCESS THEN [s |-> q.s, c |-> q.n, d |-> dd]
         ELSE IF m.s # BC_STATUS_SUCCESS THEN [s |-> m.s, c |-> q.n, d |-> dd]
         ELSE IF df.s # BC_STATUS_SUCCESS
         THEN [s |-> df.s, c |-> q.n, d |-> df.n]
         ELSE [s |-> BC_STATUS_SUCCESS, c |-> q.n,
               d |-> Call("bc_num_retireMul", <<d1, ts, x.neg, y.neg>>)]

\* bc_num_r: the quotient into cc and the remainder into dd.
bc_num_r(x, y, cc, dd, sc, ts) ==
    IF BC_NUM_ZERO(y)
    THEN [s |-> BC_ERROR_MATH_DIVIDE_BY_ZERO, c |-> cc, d |-> dd]
    ELSE IF BC_NUM_ZERO(x)
    THEN [s |-> BC_STATUS_SUCCESS, c |-> bc_num_setToZero(cc, ts),
          d |-> bc_num_setToZero(dd, ts)]
    ELSE
      LET temp == bc_num_init(Len(dd.num))
          q == Call("bc_num_d", <<x, y, cc, sc>>)
          sc2 == IF sc # 0 THEN ts + 1 ELSE sc
          m == Call("bc_num_m", <<q.n, y, temp, sc2>>)
          df == Call("bc_num_sub", <<x, m.n, dd, FALSE>>)
          d1 == IF ts > df.n.scale /\ BC_NUM_NONZERO(df.n)
                THEN bc_num_extend(df.n, ts - df.n.scale) ELSE df.n
          d2 == Call("bc_num_retireMul", <<d1, ts, x.neg, y.neg>>)
      IN IF q.s # BC_STATUS_SUCCESS THEN [s |-> q.s, c |-> q.n, d |-> dd]
         ELSE IF m.s # BC_STATUS_SUCCESS THEN [s |-> m.s, c |-> q.n, d |-> dd]
         ELSE IF df.s # BC_STATUS_SUCCESS
         THEN [s |-> df.s, c |-> q.n, d |-> df.n]
         ELSE [s |-> BC_STATUS_SUCCESS, c |-> q.n,
               d |-> [d2 EXCEPT !.neg = IF BC_NUM_NONZERO(d2) THEN d1.neg
                                        ELSE FALSE]]

bc_num_rem(x, y, cc, sc) ==
    LET ts == BC_MAX(sc + y.scale, x.scale)
        r == Call("bc_num_r", <<x, y, bc_num_init(bc_num_mulReq(x, y, ts)), cc, sc, ts>>)
    IN [s |-> r.s, n |-> r.d]

bc_num_div(x, y, cc, sc, init) ==
    bc_num_binary(x, y, cc, sc, "bc_num_d", bc_num_mulReq(x, y, sc), init)

bc_num_mod(x, y, cc, sc, init) ==
    bc_num_binary(x, y, cc, sc, "bc_num_rem", bc_num_mulReq(x, y, sc), init)

\* bc_num_divmod; init is the case c == a, in which c gets a new buffer.
bc_num_divmod(x, y, cc, dd, sc, init) ==
    LET ts == BC_MAX(sc + y.scale, x.scale)
        len == bc_num_mulReq(x, y, ts)
        c0 == IF init THEN bc_num_init(len) ELSE bc_num_expand(cc, len)
    IN IF BC_NUM_NONZERO(x) /\ x.rdx = 0 /\ y.rdx = 0 /\ y.len = 1 /\ sc = 0
       THEN LET r == bc_num_divArray(x, y.num[1], c0)
            IN [s |-> r.s, c |-> r.n,
                d |-> [dd EXCEPT !.num = Store(dd.num, 0, <<r.rem>>),
                                 !.len = IF r.rem # 0 THEN 1 ELSE 0]]
       ELSE Call("bc_num_r", <<x, y, c0, dd, sc, ts>>)

\* The cells of the value v, least significant first.
ToCells(v) ==
    IF v = 0 THEN <<>> ELSE <<v % BC_BASE_POW>> \o Call("ToCells", <<v \div BC_BASE_POW>>)

(***************************************************************************)
(* Conversion to BcBigDig, places and shifts by a number of places.        *)
(***************************************************************************)
\* The loop without the test of the sum: only the product is tested for
\* having wrapped around.
BigdigLoop_productOnly(n, i, r) ==
    IF i > n.rdx
    THEN LET prev == (r * BC_BASE_POW) % (BC_NUM_BIGDIG_MAX + 1)
             r2 == (prev + n.num[i]) % (BC_NUM_BIGDIG_MAX + 1)
         IN IF prev \div BC_BASE_POW # r
            THEN [s |-> BC_ERROR_MATH_OVERFLOW, v |-> 0]
            ELSE Call("BigdigLoop", <<n, i - 1, r2>>)
    ELSE [s |-> BC_STATUS_SUCCESS, v |-> r]

\* The loop of bc_num_bigdig from the cell below i.  BcBigDig arithmetic
\* wraps.  On an error the result is not written: the callers have set it
\* to 0 before.
BigdigLoop(n, i, r) ==
    IF i > n.rdx
    THEN LET prev == (r * BC_BASE_POW) % (BC_NUM_BIGDIG_MAX + 1)
             r2 == (prev + n.num[i]) % (BC_NUM_BIGDIG_MAX + 1)
         IN IF prev \div BC_BASE_POW # r
            THEN [s |-> BC_ERROR_MATH_OVERFLOW, v |-> 0]
            ELSE IF r2 < prev THEN [s |-> BC_ERROR_MATH_OVERFLOW, v |-> 0]
            ELSE Call("BigdigLoop", <<n, i - 1, r2>>)
    ELSE [s |-> BC_STATUS_SUCCESS, v |-> r]

bc_num_bigdig(n) ==
    IF n.neg THEN [s |-> BC_ERROR_MATH_NEGATIVE, v |-> 0]
    ELSE Call("BigdigLoop", <<n, n.len, 0>>)

bc_num_bigdig2num(n, val) ==
    LET z == bc_num_zero(n)
    IN IF val = 0 THEN z
       ELSE LET e == bc_num_expand(z, bc_num_log10(BC_NUM_BIGDIG_MAX))
                cells == Call("ToCells", <<val>>)
            IN [e EXCEPT !.num = Store(e.num, 0, cells), !.len = Len(cells)]

bc_num_intop(x, y, cc) ==
    IF y.rdx # 0 THEN [s |-> BC_ERROR_MATH_NON_INTEGER, n |-> cc, v |-> 0]
    ELSE LET r == bc_num_bigdig(y)
         IN [s |-> r.s, n |-> bc_num_copy(cc, x), v |-> r.v]

\* bc_num_place after bc_num_intop gave r: the copy of a in c gets r.v
\* decimal places.
PlaceScale(r) ==
    IF r.s # BC_STATUS_SUCCESS THEN [s |-> r.s, n |-> r.n]
    ELSE IF r.v < r.n.scale
    THEN [s |-> r.s, n |-> bc_num_truncate(r.n, r.n.scale - r.v)]
    ELSE IF r.v > r.n.scale
    THEN [s |-> r.s, n |-> bc_num_extend(r.n, r.v - r.n.scale)]
    ELSE [s |-> r.s, n |-> r.n]

bc_num_place(x, y, cc, sc) == PlaceScale(bc_num_intop(x, y, cc))

\* bc_num_left after bc_num_intop gave r.
LeftShift(r) ==
    IF r.s # BC_STATUS_SUCCESS THEN [s |-> r.s, n |-> r.n]
    ELSE Call("bc_num_shiftLeft", <<r.n, r.v>>)

bc_num_left(x, y, cc, sc) == LeftShift(bc_num_intop(x, y, cc))

\* bc_num_right after bc_num_intop gave r.
RightShift(r) ==
    IF r.s # BC_STATUS_SUCCESS \/ BC_NUM_ZERO(r.n)
    THEN [s |-> r.s, n |-> r.n]
    ELSE Call("bc_num_shiftRight", <<r.n, r.v>>)

bc_num_right(x, y, cc, sc) == RightShift(bc_num_intop(x, y, cc))

bc_num_placesReq(x, y) ==
    LET places == bc_num_bigdig(y).v
        rdx == IF x.scale <= places THEN BC_NUM_RDX(places)
               ELSE BC_NUM_RDX(x.scale - places)
    IN BC_NUM_RDX(bc_num_intDigits(x)) + rdx

bc_num_shiftLeftReq(x, y) ==
    LET places == bc_num_bigdig(y).v
        rdx == IF x.scale <= places THEN BC_NUM_RDX(places) - x.rdx + 1 ELSE 0
    IN x.len + rdx

bc_num_shiftRightReq(x, y) ==
    LET places == bc_num_bigdig(y).v
        int_digs == BC_NUM_RDX(bc_num_intDigits(x))
        rdx == BC_NUM_RDX(places)
    IN x.len + (IF int_digs <= rdx THEN rdx - int_digs ELSE 0)

bc_num_places(x, y, cc, sc, init) ==
    bc_num_binary(x, y, cc, sc, "bc_num_place", bc_num_placesReq(x, y), init)

bc_num_lshift(x, y, cc, sc, init) ==
    bc_num_binary(x, y, cc, sc, "bc_num_left", bc_num_shiftLeftReq(x, y), init)

bc_num_rshift(x, y, cc, sc, init) ==
    bc_num_binary(x, y, cc, sc, "bc_num_right", bc_num_shiftRightReq(x, y), init)

(***************************************************************************)
(* Power and modular exponentiation.                                       *)
(***************************************************************************)
\* bc_num_inv(a, b, scale); init is the case b == a.
bc_num_inv(x, cc, sc, init) ==
    Call("bc_num_div", <<bc_num_one(bc_num_setup(<<Junk, Junk>>)), x, cc, sc, init>>)

\* The first loop of bc_num_p: copy is squared while pow is even.
PowEven(copy, pow, powrdx) ==
    IF pow % 2 = 0
    THEN LET m == Call("bc_num_mul", <<copy, copy, copy, 2 * powrdx, TRUE>>)
         IN IF m.s # BC_STATUS_SUCCESS
            THEN [s |-> m.s, copy |-> m.n, pow |-> pow, powrdx |-> 2 * powrdx]
            ELSE Call("PowEven", <<m.n, pow \div 2, 2 * powrdx>>)
    ELSE [s |-> BC_STATUS_SUCCESS, copy |-> copy, pow |-> pow,
          powrdx |-> powrdx]

\* A turn of the second loop with an odd pow, after c = c * copy gave r.
PowTimes(v, pow, powrdx, m, resrdx, r) ==
    IF r.s # BC_STATUS_SUCCESS THEN [v EXCEPT !.s = r.s]
    ELSE Call("PowRest", <<[s |-> r.s, copy |-> m.n, c |-> r.n, pow |-> pow,
                  powrdx |-> powrdx, resrdx |-> resrdx]>>)

\* A turn of the second loop, after copy = copy * copy gave m.
PowSquare(v, pow, powrdx, m) ==
    IF m.s # BC_STATUS_SUCCESS THEN [v EXCEPT !.s = m.s]
    ELSE IF pow % 2 = 1
    THEN PowTimes(v, pow, powrdx, m, v.resrdx + powrdx,
                  Call("bc_num_mul",
                       <<v.c, m.n, v.c, v.resrdx + powrdx, TRUE>>))
    ELSE Call("PowRest", <<[v EXCEPT !.copy = m.n, !.pow = pow, !.powrdx = powrdx]>>)

\* A second loop of bc_num_p that makes no turn.
PowRest_noTurn(v) == v

\* The second loop of bc_num_p.  v is [s, copy, c, pow, powrdx, resrdx].
PowRest(v) ==
    IF v.pow \div 2 = 0 THEN v
    ELSE PowSquare(v, v.pow \div 2, 2 * v.powrdx,
                   Call("bc_num_mul",
                        <<v.copy, v.copy, v.copy, 2 * v.powrdx, TRUE>>))

\* The end of bc_num_p: c is cut to the scale and a zero is made the zero.
PowEnd(scl, iv) ==
    IF iv.s # BC_STATUS_SUCCESS THEN iv
    ELSE LET tr == IF iv.n.scale > scl
                   THEN bc_num_truncate(iv.n, iv.n.scale - scl) ELSE iv.n
         IN [s |-> BC_STATUS_SUCCESS,
             n |-> IF AnyNonzero(tr.num, tr.len) THEN tr
                   ELSE bc_num_setToZero(tr, scl)]

\* bc_num_p after its second loop, which left rest.
PowInvert(neg, scl, rest) ==
    IF rest.s # BC_STATUS_SUCCESS THEN [s |-> rest.s, n |-> rest.c]
    ELSE PowEnd(scl,
                IF neg THEN Call("bc_num_inv", <<rest.c, rest.c, scl, TRUE>>)
                ELSE [s |-> BC_STATUS_SUCCESS, n |-> rest.c])

\* bc_num_p after its first loop, which left ev.
PowSecond(cc, neg, scl, ev) ==
    IF ev.s # BC_STATUS_SUCCESS THEN [s |-> ev.s, n |-> cc]
    ELSE PowInvert(neg, scl,
                   Call("PowRest", <<[s |-> BC_STATUS_SUCCESS, copy |-> ev.copy,
                            c |-> bc_num_copy(cc, ev.copy), pow |-> ev.pow,
                            powrdx |-> ev.powrdx, resrdx |-> ev.powrdx]>>))

\* bc_num_p after the conversion big of the exponent's magnitude.
PowLoops(x, cc, sc, neg, big) ==
    IF big.s # BC_STATUS_SUCCESS THEN [s |-> big.s, n |-> cc]
    ELSE IF BC_SIG THEN [s |-> BC_STATUS_SIGNAL, n |-> cc]
    ELSE PowSecond(cc, neg,
                   IF ~neg
                   THEN BC_MIN(x.scale * big.v, BC_MAX(sc, x.scale)) ELSE sc,
                   Call("PowEven", <<bc_num_createCopy(x), big.v, x.scale>>))

bc_num_p(x, y, cc, sc) ==
    IF y.rdx # 0 THEN [s |-> BC_ERROR_MATH_NON_INTEGER, n |-> cc]
    ELSE IF BC_NUM_ZERO(y) THEN [s |-> BC_STATUS_SUCCESS, n |-> bc_num_one(cc)]
    ELSE IF BC_NUM_ZERO(x)
    THEN [s |-> BC_STATUS_SUCCESS, n |-> bc_num_setToZero(cc, sc)]
    ELSE IF BC_NUM_ONE(y)
    THEN IF ~y.neg THEN [s |-> BC_STATUS_SUCCESS, n |-> bc_num_copy(cc, x)]
         ELSE Call("bc_num_inv", <<x, cc, sc, FALSE>>)
    ELSE PowLoops(x, cc, sc, y.neg, bc_num_bigdig([y EXCEPT !.neg = FALSE]))

bc_num_powReq(x, y) == x.len + y.len + 1

bc_num_pow(x, y, cc, sc, init) ==
    bc_num_binary(x, y, cc, sc, "bc_num_p", bc_num_powReq(x, y), init)

\* One turn of the loop of bc_num_modexp.  v is [s, exp, base, temp, d]; z
\* is the modulus and two the number 2.  A status other than success is the
\* goto err.
ModexpStep(v, z, two) ==
    LET dm == Call("bc_num_divmod", <<v.exp, two, v.exp, v.temp, 0, TRUE>>)
        odd == BC_NUM_ONE(dm.d) /\ ~dm.d.neg
        t1 == Call("bc_num_mul", <<v.d, v.base, dm.d, 0, FALSE>>)
        d1 == Call("bc_num_rem", <<t1.n, z, v.d, 0>>)
        temp == IF odd THEN t1.n ELSE dm.d
        dd == IF odd THEN d1.n ELSE v.d
        t2 == Call("bc_num_mul", <<v.base, v.base, temp, 0, FALSE>>)
        b2 == Call("bc_num_rem", <<t2.n, z, v.base, 0>>)
    IN IF dm.s # BC_STATUS_SUCCESS
       THEN [v EXCEPT !.s = dm.s, !.exp = dm.c, !.temp = dm.d]
       ELSE IF odd /\ t1.s # BC_STATUS_SUCCESS
       THEN [v EXCEPT !.s = t1.s, !.exp = dm.c, !.temp = t1.n]
       ELSE IF odd /\ d1.s # BC_STATUS_SUCCESS
       THEN [v EXCEPT !.s = d1.s, !.exp = dm.c, !.temp = t1.n, !.d = d1.n]
       ELSE IF t2.s # BC_STATUS_SUCCESS
       THEN [v EXCEPT !.s = t2.s, !.exp = dm.c, !.temp = t2.n, !.d = dd]
       ELSE [s |-> b2.s, exp |-> dm.c, base |-> b2.n, temp |-> t2.n, d |-> dd]

\* The loop of bc_num_modexp.
ModexpLoop(v, z, two) ==
    IF BC_SIG \/ v.s # BC_STATUS_SUCCESS \/ BC_NUM_ZERO(v.exp) THEN v
    ELSE Call("ModexpLoop", <<ModexpStep(v, z, two), z, two>>)

\* bc_num_modexp(a, b, c, d): a^b mod c into d.
bc_num_modexp(x, y, z, dd) ==
    IF BC_NUM_ZERO(z) THEN [s |-> BC_ERROR_MATH_DIVIDE_BY_ZERO, n |-> dd]
    ELSE IF y.neg THEN [s |-> BC_ERROR_MATH_NEGATIVE, n |-> dd]
    ELSE IF x.rdx # 0 \/ y.rdx # 0 \/ z.rdx # 0
    THEN [s |-> BC_ERROR_MATH_NON_INTEGER, n |-> dd]
    ELSE
      LET d0 == bc_num_one(bc_num_expand(dd, z.len))
          two0 == bc_num_one(bc_num_setup(<<Junk, Junk>>))
          two == [two0 EXCEPT !.num = Store(two0.num, 0, <<2>>)]
          base == Call("bc_num_rem", <<x, z, bc_num_init(z.len), 0>>)
          v == Call("ModexpLoop", <<[s |-> BC_STATUS_SUCCESS, exp |-> bc_num_createCopy(y),
                           base |-> base.n, temp |-> bc_num_init(y.len + 1),
                           d |-> d0], z, two>>)
      IN IF base.s # BC_STATUS_SUCCESS THEN [s |-> base.s, n |-> d0]
         ELSE [s |-> IF v.s = BC_STATUS_SUCCESS /\ BC_SIG
                     THEN BC_STATUS_SIGNAL ELSE v.s,
               n |-> v.d]

(***************************************************************************)
(* Square root.                                                            *)
(***************************************************************************)
\* The initial value of cmp1 and cmp2 in bc_num_sqrt, which no comparison
\* returns.
SSIZE_MAX == Pow2(30)

\* A turn that counts the repeats but leaves resscale as it is.
SqrtTurn_sameScale(v, f, fprime, x1, cmp) ==
    IF cmp = BC_NUM_CMP_SIGNAL
    THEN [v EXCEPT !.s = BC_STATUS_SIGNAL, !.f = f.n, !.fprime = fprime.n,
                   !.x1 = x1.n, !.cmp = cmp]
    ELSE LET digs == x1.n.len - (IF cmp < 0 THEN 0 - cmp ELSE cmp)
         IN [s |-> BC_STATUS_SUCCESS, x0 |-> x1.n, x1 |-> v.x0, f |-> f.n,
             fprime |-> fprime.n, cmp |-> cmp, cmp1 |-> cmp, cmp2 |-> v.cmp1,
             digs |-> digs, digs1 |-> digs,
             times |-> IF cmp = v.cmp2 /\ digs = v.digs1 THEN v.times + 1
                       ELSE 0,
             resscale |-> v.resscale]

\* One turn of the loop of bc_num_sqrt on the operand x.  v holds the status
\* s and the locals x0, x1, f, fprime, cmp, cmp1, cmp2, digs, digs1, times
\* and resscale; half is the number 0.5.  A status other than success is
\* the goto err.  digs is a size_t: a negative value stands for the value
\* the subtraction wraps to.
SqrtTurn(v, f, fprime, x1, cmp) ==
    IF cmp = BC_NUM_CMP_SIGNAL
    THEN [v EXCEPT !.s = BC_STATUS_SIGNAL, !.f = f.n, !.fprime = fprime.n,
                   !.x1 = x1.n, !.cmp = cmp]
    ELSE LET digs == x1.n.len - (IF cmp < 0 THEN 0 - cmp ELSE cmp)
             times == IF cmp = v.cmp2 /\ digs = v.digs1 THEN v.times + 1
                      ELSE 0
         IN [s |-> BC_STATUS_SUCCESS, x0 |-> x1.n, x1 |-> v.x0, f |-> f.n,
             fprime |-> fprime.n, cmp |-> cmp, cmp1 |-> cmp, cmp2 |-> v.cmp1,
             digs |-> digs, digs1 |-> digs, times |-> times,
             resscale |-> v.resscale + (IF times > 2 THEN 1 ELSE 0)]

\* The turn after x1 = fprime * half.
SqrtCmp(v, f, fprime, x1) ==
    IF x1.s # BC_STATUS_SUCCESS
    THEN [v EXCEPT !.s = x1.s, !.f = f.n, !.fprime = fprime.n, !.x1 = x1.n]
    ELSE SqrtTurn(v, f, fprime, x1, bc_num_cmp(x1.n, v.x0))

\* The turn after fprime = x0 + f.
SqrtMul(v, half, f, fprime) ==
    IF fprime.s # BC_STATUS_SUCCESS
    THEN [v EXCEPT !.s = fprime.s, !.f = f.n, !.fprime = fprime.n]
    ELSE SqrtCmp(v, f, fprime,
                 Call("bc_num_mul",
                      <<fprime.n, half, v.x1, v.resscale, FALSE>>))

\* The turn after f = a / x0.
SqrtAdd(v, half, f) ==
    IF f.s # BC_STATUS_SUCCESS THEN [v EXCEPT !.s = f.s, !.f = f.n]
    ELSE SqrtMul(v, half, f,
                 Call("bc_num_add", <<v.x0, f.n, v.fprime, FALSE>>))

SqrtStep(v, x, half) ==
    SqrtAdd(v, half, Call("bc_num_div", <<x, v.x0, v.f, v.resscale, FALSE>>))

\* A loop of bc_num_sqrt that stops after its first turn.
SqrtLoop_oneTurn(v, x, half, len) == SqrtStep(v, x, half)

\* The test of the loop of bc_num_sqrt, and of the goto err inside it: the
\* loop runs while cmp is not zero or digs < len.
SqrtGoesOn(v, len) ==
    /\ v.s = BC_STATUS_SUCCESS
    /\ BC_NO_SIG
    /\ (v.cmp # 0 \/ (v.digs >= 0 /\ v.digs < len))

\* The loop of bc_num_sqrt.
SqrtLoop(v, x, half, len) ==
    IF SqrtGoesOn(v, len)
    THEN Call("SqrtLoop", <<SqrtStep(v, x, half), x, half, len>>)
    ELSE v

\* The number 0.5 of bc_num_sqrt, in a buffer of one cell.
SqrtHalf ==
    LET half0 == bc_num_one(bc_num_setup(<<Junk>>))
    IN [half0 EXCEPT !.num = Store(half0.num, 0, <<BC_BASE_POW \div 2>>),
                     !.len = 1, !.rdx = 1, !.scale = 1]

\* The end of bc_num_sqrt, after the loop left v.
SqrtEnd(scl, b0, v) ==
    IF v.s # BC_STATUS_SUCCESS THEN [s |-> v.s, n |-> bc_num_free(b0)]
    ELSE IF BC_SIG THEN [s |-> BC_STATUS_SIGNAL, n |-> bc_num_free(b0)]
    ELSE LET r == bc_num_copy(b0, v.x0)
         IN [s |-> BC_STATUS_SUCCESS,
             n |-> IF r.scale > scl THEN bc_num_truncate(r, r.scale - scl)
                   ELSE r]

\* The locals of bc_num_sqrt before the first turn of its loop, with the
\* first guess x0, which the shift sh of the guess's digit gave when a has
\* pow > 0 integer digits: the scale scl, the output b0, the locals v that
\* the loop changes and the len of the loop's test.
SqrtNewton(scl, b0, len, pow, x0, resscale, sh) ==
    [scl |-> scl, b0 |-> b0,
     v |-> [s |-> IF pow # 0 THEN sh.s ELSE BC_STATUS_SUCCESS,
            x0 |-> x0, x1 |-> bc_num_init(len),
            f |-> bc_num_init(len), fprime |-> bc_num_init(len),
            cmp |-> 1, cmp1 |-> SSIZE_MAX, cmp2 |-> SSIZE_MAX,
            digs |-> 0, digs1 |-> 0, times |-> 0,
            resscale |-> resscale],
     len |-> BC_NUM_RDX(bc_num_intDigits(x0) + resscale - 1)]

\* The locals after the shift sh of the first guess.
SqrtShifted(scl, b0, len, pow, one, sh) ==
    SqrtNewton(scl, b0, len, pow,
               IF pow # 0 THEN [sh.n EXCEPT !.scale = 0, !.rdx = 0]
               ELSE [one EXCEPT !.scale = 0, !.rdx = 0],
               (scl + BC_BASE_DIGS) * 2, sh)

\* The first guess of bc_num_sqrt: 2 or 6, shifted by half the integer
\* digits of a.
SqrtGuess(scl, b0, len, pow, one) ==
    SqrtShifted(scl, b0, len, pow, one,
                IF pow # 0
                THEN Call("bc_num_shiftLeft",
                          <<[one EXCEPT !.num = Store(one.num, 0,
                                           <<IF pow % 2 = 1 THEN 2 ELSE 6>>)],
                            (pow - (2 - (pow % 2))) \div 2>>)
                ELSE [s |-> BC_STATUS_SUCCESS, n |-> one])

\* The locals of bc_num_sqrt of x at the scale scl, with len cells for the
\* temporaries.
SqrtLocals(x, scl, len) ==
    SqrtGuess(scl,
              bc_num_init(BC_MAX(BC_NUM_RDX(scl), x.rdx) +
                          ((bc_num_intDigits(x) + 1) \div 2) + 1),
              len, bc_num_intDigits(x), bc_num_one(bc_num_init(len)))

SqrtFrame(x, scl) ==
    SqrtLocals(x, scl, x.len + BC_MAX(BC_NUM_RDX(scl), x.rdx))

\* bc_num_sqrt from its loop on.
SqrtRun(x, fr) ==
    SqrtEnd(fr.scl, fr.b0,
            Call("SqrtLoop", <<fr.v, x, SqrtHalf, fr.len>>))

\* bc_num_sqrt from its tests of zero and one on; b0 is the output as
\* bc_num_sqrt initialised it.
SqrtStart(x, scl, b0, fr) ==
    IF BC_NUM_ZERO(x)
    THEN [s |-> BC_STATUS_SUCCESS, n |-> bc_num_setToZero(b0, scl)]
    ELSE IF BC_NUM_ONE(x)
    THEN [s |-> BC_STATUS_SUCCESS, n |-> bc_num_extend(bc_num_one(b0), scl)]
    ELSE SqrtRun(x, fr)

\* bc_num_sqrt of an operand that is not negative, at the scale scl.
SqrtOutput(x, scl) ==
    SqrtStart(x, scl,
              bc_num_init(BC_MAX(BC_NUM_RDX(scl), x.rdx) +
                          ((bc_num_intDigits(x) + 1) \div 2) + 1),
              SqrtFrame(x, scl))

\* bc_num_sqrt(a, b, scale): the square root of a into b, which the function
\* initialises.
bc_num_sqrt(x, bb, sc) ==
    IF x.neg THEN [s |-> BC_ERROR_MATH_NEGATIVE, n |-> bb]
    ELSE SqrtOutput(x, IF x.scale > sc THEN x.scale ELSE sc)

(***************************************************************************)
(* Parsing a decimal string.  A string is the sequence of its character    *)
(* codes.                                                                  *)
(***************************************************************************)
CharZero == 48
CharNine == 57
CharDot == 46
CharA == 65

\* BC_NUM_BIGDIG_LOG10 (num.h): the decimal digits of the largest BcBigDig.
BC_NUM_BIGDIG_LOG10 == bc_num_log10(BC_NUM_BIGDIG_MAX)

isupper(ch) == ch \in CharA..(CharA + 25)

\* The string past its leading '0' characters.
SkipZeros(val) ==
    IF val # <<>> /\ val[1] = CharZero THEN Call("SkipZeros", <<Tail(val)>>) ELSE val

\* strchr(val, ch): the C index of the first ch, -1 for NULL.
strchr(val, ch) ==
    IF \E i \in 1..Len(val) : val[i] = ch
    THEN (CHOOSE i \in 1..Len(val) :
              val[i] = ch /\ \A j \in 1..(i - 1) : val[j] # ch) - 1
    ELSE 0 - 1

\* The index at which the scan over '0' and '.' stops.
ZeroScan(val, i) ==
    IF i < Len(val) /\ (val[i + 1] = CharZero \/ val[i + 1] = CharDot)
    THEN Call("ZeroScan", <<val, i + 1>>)
    ELSE i

\* The digit loop of bc_num_parseDecimal, v being [num, i, exp, pow]: from
\* character v.i down to character 0.
ParseDigits(v, val) ==
    IF v.i < 0 THEN v.num
    ELSE LET ch == val[v.i + 1]
             idx == v.exp \div BC_BASE_DIGS
             dg == IF isupper(ch) THEN CharNine ELSE ch
             cell == v.num[idx + 1] + (dg - CharZero) * v.pow
         IN IF ch = CharDot THEN Call("ParseDigits", <<[v EXCEPT !.i = v.i - 1], val>>)
            ELSE Call("ParseDigits", <<[num |-> Store(v.num, idx, <<cell>>),
                              i |-> v.i - 1, exp |-> v.exp + 1,
                              pow |-> IF (v.exp + 1) % BC_BASE_DIGS = 0 THEN 1
                                      ELSE v.pow * BC_BASE], val>>)

bc_num_parseDecimal(n, str) ==
    LET val == Call("SkipZeros", <<str>>)
    IN IF val = <<>> THEN n
       ELSE
         LET len == Len(val)
             ptr == strchr(val, CharDot)
             rdx == IF ptr >= 0 THEN 1 ELSE 0
             i0 == Call("ZeroScan", <<val, 0>>)
             zero == i0 = len
             sc == rdx * (len - (ptr + 1))
             i1 == len - (IF ptr = 0 THEN 0 ELSE i0) - rdx
             temp == BC_NUM_ROUND_POW(i1)
             mod == sc % BC_BASE_DIGS
             i2 == IF mod # 0 THEN BC_BASE_DIGS - mod ELSE 0
             nlen == (temp + i2) \div BC_BASE_DIGS
             e == bc_num_expand(n, nlen)
             z == Store(e.num, 0, Zeros(nlen))
         IN IF zero
            THEN [e EXCEPT !.num = z, !.scale = sc, !.len = 0, !.rdx = 0]
            ELSE [e EXCEPT !.num = Call("ParseDigits", <<[num |-> z, i |-> len - 1,
                                                exp |-> i2,
                                                pow |-> bc_num_pow10(i2)],
                                               val>>),
                           !.scale = sc, !.rdx = BC_NUM_RDX(sc), !.len = nlen]

\* isdigit of <ctype.h>.
isdigit(ch) == ch \in CharZero..CharNine

\* bc_num_strValid(val), from character i on; radix says that a point has
\* been seen.
StrValidFrom(val, i, radix) ==
    IF i >= Len(val) THEN TRUE
    ELSE IF val[i + 1] = CharDot
    THEN IF radix THEN FALSE ELSE Call("StrValidFrom", <<val, i + 1, TRUE>>)
    ELSE IF ~(isdigit(val[i + 1]) \/ isupper(val[i + 1])) THEN FALSE
    ELSE Call("StrValidFrom", <<val, i + 1, radix>>)

bc_num_strValid(val) == Call("StrValidFrom", <<val, 0, FALSE>>)

\* BC_NUM_NUM_LETTER (num.h): the digit a letter stands for, 'A' being 10.
BC_NUM_NUM_LETTER(ch) == ch - CharA + BC_BASE

\* BC_NUM_MAX_LBASE (num.h): the base bc_num_parse hands bc_num_parseChar
\* for a single letter; no letter stands for a digit that reaches it.
BC_NUM_MAX_LBASE == 36

\* bc_num_parseChar that takes a letter for a decimal digit.
bc_num_parseChar_asDigit(ch, base_t) == (ch - CharZero) % 256

\* bc_num_parseChar(c, base_t); the result is the char as a uchar.
bc_num_parseChar(ch, base_t) ==
    IF isupper(ch)
    THEN IF BC_NUM_NUM_LETTER(ch) >= base_t THEN (base_t - 1) % 256
         ELSE BC_NUM_NUM_LETTER(ch)
    ELSE (ch - CharZero) % 256

\* The first loop of bc_num_parseBase, over the characters before the
\* point.  v is [s, n, mult1, temp, i].
ParseBaseIntAdd(v, val, bs, m, temp, r) ==
    IF r.s # BC_STATUS_SUCCESS
    THEN [v EXCEPT !.s = r.s, !.mult1 = m.n, !.temp = temp, !.n = r.n]
    ELSE Call("ParseBaseInt", <<[s |-> r.s, n |-> r.n, mult1 |-> m.n,
                       temp |-> temp, i |-> v.i + 1], val, bs>>)

\* A turn of the first loop after n times the base gave m; temp is the
\* digit read.
ParseBaseIntMul(v, val, bs, m, temp) ==
    IF m.s # BC_STATUS_SUCCESS THEN [v EXCEPT !.s = m.s, !.mult1 = m.n]
    ELSE ParseBaseIntAdd(v, val, bs, m, temp,
                         Call("bc_num_add", <<m.n, temp, v.n, FALSE>>))

ParseBaseInt(v, val, bs) ==
    IF /\ v.s = BC_STATUS_SUCCESS
       /\ v.i < Len(val)
       /\ val[v.i + 1] # CharDot
    THEN ParseBaseIntMul(v, val, bs, bc_num_mulArray(v.n, bs, v.mult1),
                         bc_num_bigdig2num(v.temp,
                                           bc_num_parseChar(val[v.i + 1], bs)))
    ELSE v

\* The second loop of bc_num_parseBase, over the characters after the
\* point.  v is [s, result1, result2, m1, m2, temp, i, digs].
ParseBaseFracPlace(v, val, bs, r2, temp, r1, m) ==
    IF m.s # BC_STATUS_SUCCESS
    THEN [v EXCEPT !.s = m.s, !.result2 = r2.n, !.temp = temp,
                   !.result1 = r1.n, !.m2 = m.n]
    ELSE Call("ParseBaseFrac", <<[s |-> m.s, result1 |-> r1.n, result2 |-> r2.n,
                        m1 |-> m.n, m2 |-> v.m1, temp |-> temp,
                        i |-> v.i + 1, digs |-> v.digs + 1], val, bs>>)

\* A turn of the second loop after the digit temp was added, giving r1.
ParseBaseFracAdd(v, val, bs, r2, temp, r1) ==
    IF r1.s # BC_STATUS_SUCCESS
    THEN [v EXCEPT !.s = r1.s, !.result2 = r2.n, !.temp = temp,
                   !.result1 = r1.n]
    ELSE ParseBaseFracPlace(v, val, bs, r2, temp, r1,
                            bc_num_mulArray(v.m1, bs, v.m2))

\* A turn of the second loop after result1 times the base gave r2.
ParseBaseFracMul(v, val, bs, r2, temp) ==
    IF r2.s # BC_STATUS_SUCCESS THEN [v EXCEPT !.s = r2.s, !.result2 = r2.n]
    ELSE ParseBaseFracAdd(v, val, bs, r2, temp,
                          Call("bc_num_add", <<r2.n, temp, v.result1, FALSE>>))

ParseBaseFrac(v, val, bs) ==
    IF v.s = BC_STATUS_SUCCESS /\ BC_NO_SIG /\ v.i < Len(val)
    THEN ParseBaseFracMul(v, val, bs,
                          bc_num_mulArray(v.result1, bs, v.result2),
                          bc_num_bigdig2num(v.temp,
                                            bc_num_parseChar(val[v.i + 1],
                                                             bs)))
    ELSE v

\* The end of bc_num_parseBase: the sum n of the integer and the fraction
\* gets the scale of the digits read.
ParseBaseScale(sum, digs) ==
    IF sum.s # BC_STATUS_SUCCESS THEN sum
    ELSE [s |-> sum.s,
          n |-> IF BC_NUM_NONZERO(sum.n)
                THEN IF sum.n.scale < digs
                     THEN bc_num_extend(sum.n, digs - sum.n.scale)
                     ELSE sum.n
                ELSE bc_num_zero(sum.n)]

\* bc_num_parseBase after the division q of the fraction's digits by the
\* power of the base.
ParseBaseSum(ip, fp, q) ==
    IF q.s # BC_STATUS_SUCCESS THEN [s |-> q.s, n |-> ip.n]
    ELSE ParseBaseScale(Call("bc_num_add",
                             <<ip.n, bc_num_truncate(q.n, fp.digs), ip.n,
                               TRUE>>),
                        fp.digs)

\* bc_num_parseBase after its second loop, which returned fp.
ParseBaseFraction(ip, fp) ==
    IF fp.s # BC_STATUS_SUCCESS THEN [s |-> fp.s, n |-> ip.n]
    ELSE IF BC_SIG THEN [s |-> BC_STATUS_SIGNAL, n |-> ip.n]
    ELSE ParseBaseSum(ip, fp,
                      Call("bc_num_div",
                           <<fp.result1, fp.m1, fp.result2, fp.digs * 2,
                             FALSE>>))

\* bc_num_parseBase after its first loop, which returned ip.
ParseBasePoint(ip, val, bs) ==
    IF ip.s # BC_STATUS_SUCCESS \/ ip.i = Len(val)
    THEN [s |-> ip.s, n |-> ip.n]
    ELSE ParseBaseFraction(
             ip,
             Call("ParseBaseFrac", <<[s |-> BC_STATUS_SUCCESS,
                            result1 |-> bc_num_init(BC_NUM_DEF_SIZE),
                            result2 |-> bc_num_init(BC_NUM_DEF_SIZE),
                            m1 |-> bc_num_one(ip.mult1),
                            m2 |-> bc_num_init(BC_NUM_BIGDIG_LOG10),
                            temp |-> ip.temp, i |-> ip.i + 1, digs |-> 0],
                           val, bs>>))

\* bc_num_parseBase(n, val, base): [s, n].
bc_num_parseBase(n, val, bs) ==
    IF Call("ZeroScan", <<val, 0>>) = Len(val) THEN [s |-> BC_STATUS_SUCCESS, n |-> n]
    ELSE ParseBasePoint(
             Call("ParseBaseInt", <<[s |-> BC_STATUS_SUCCESS, n |-> n,
                           mult1 |-> bc_num_init(BC_NUM_BIGDIG_LOG10),
                           temp |-> bc_num_init(BC_NUM_BIGDIG_LOG10),
                           i |-> 0], val, bs>>),
             val, bs)

\* bc_num_parse(n, val, base, letter): [s, n].
bc_num_parse(n, val, bs, letter) ==
    IF letter
    THEN [s |-> BC_STATUS_SUCCESS,
          n |-> bc_num_bigdig2num(n, bc_num_parseChar(val[1],
                                                      BC_NUM_MAX_LBASE))]
    ELSE IF bs = BC_BASE
    THEN [s |-> BC_STATUS_SUCCESS, n |-> Call("bc_num_parseDecimal", <<n, val>>)]
    ELSE Call("bc_num_parseBase", <<n, val, bs>>)

(***************************************************************************)
(* Printing.  The sink is the record vm: out is the sequence of characters *)
(* bc_vm_putchar has written, nchars the count of characters on the        *)
(* current line and line_len the line length the caller configured.  The   *)
(* printing functions take the sink and return the sink they leave.        *)
(***************************************************************************)
CharNewline == 10
CharSpace == 32
CharMinus == 45
CharBackslash == 92
CharE == 101

\* bc_vm_putchar (vm.c): writes the character and counts the column.
bc_vm_putchar(o, ch) ==
    [o EXCEPT !.out = Append(o.out, ch),
              !.nchars = IF ch = CharNewline THEN 0 ELSE o.nchars + 1]

bc_num_printNewline(o) ==
    IF o.nchars >= o.line_len - 1
    THEN bc_vm_putchar(bc_vm_putchar(o, CharBackslash), CharNewline)
    ELSE o

\* bc_num_putchar without the call of bc_num_printNewline.
bc_num_putchar_noWrap(o, ch) == bc_vm_putchar(o, ch)

\* bc_num_putchar(c)
bc_num_putchar(o, ch) ==
    bc_vm_putchar(IF ch # CharNewline THEN bc_num_printNewline(o) ELSE o, ch)

\* bc_num_hex_digits[n] (data.c)
bc_num_hex_digits(n) ==
    IF n < BC_BASE THEN CharZero + n ELSE CharA + n - BC_BASE

\* bc_num_printHex without the radix point.
bc_num_printHex_noPoint(o, n, len, rdx) ==
    bc_num_putchar(o, bc_num_hex_digits(n))

\* bc_num_printHex(n, len, rdx)
bc_num_printHex(o, n, len, rdx) ==
    bc_num_putchar(IF rdx THEN bc_num_putchar(o, CharDot) ELSE o,
                   bc_num_hex_digits(n))

\* The second loop of bc_num_printDigits: the len decimal digits of n.
PrintDigitsLoop(o, n, exp, len) ==
    IF exp < len
    THEN LET pow == bc_num_pow10(len - 1 - exp)
             dig == n \div pow
         IN Call("PrintDigitsLoop", <<bc_num_putchar(o, (dig % 256) + CharZero),
                            n - dig * pow, exp + 1, len>>)
    ELSE o

bc_num_printDigits(o, n, len, rdx) ==
    Call("PrintDigitsLoop", <<bc_num_putchar(o, IF rdx THEN CharDot ELSE CharSpace),
                    n, 0, len>>)

\* The inner loop of bc_num_printDecimal over the digits buffer[j] of one
\* cell, from the top digit down to digit temp.  v is [o, zero].
PrintCell(v, n9, j, temp, irdx) ==
    IF j >= 0 /\ j >= temp
    THEN LET digit == (n9 \div bc_num_pow10(j)) % BC_BASE
             print_rdx == irdx /\ j = BC_BASE_DIGS - 1
             zero == v.zero /\ digit = 0
         IN Call("PrintCell", <<[o |-> IF ~zero
                             THEN bc_num_printHex(v.o, digit, 1, print_rdx)
                             ELSE v.o,
                       zero |-> zero], n9, j - 1, temp, irdx>>)
    ELSE v

\* The loop of bc_num_printDecimal over the cells, from cell i down.
PrintCells(v, n, i) ==
    IF i >= 0
    THEN LET irdx == i = n.rdx - 1
             md == n.scale % BC_BASE_DIGS
             temp == IF i # 0 \/ md = 0 THEN 0 ELSE BC_BASE_DIGS - md
         IN Call("PrintCells", <<Call("PrintCell", <<[v EXCEPT !.zero = v.zero /\ ~irdx],
                                 n.num[i + 1], BC_BASE_DIGS - 1, temp, irdx>>),
                       n, i - 1>>)
    ELSE v

bc_num_printDecimal(o, n) ==
    Call("PrintCells", <<[o |-> IF n.neg THEN bc_num_putchar(o, CharMinus) ELSE o,
                zero |-> TRUE], n, n.len - 1>>).o

\* BC_NUM_MAX_POSIX_IBASE (num.h): the largest base with one character per
\* digit.
BC_NUM_MAX_POSIX_IBASE == 16

\* The BcNumDigitOp print of bc_num_printNum: bc_num_printHex if hex, else
\* bc_num_printDigits.
PrintDigit(o, hex, n, len, rdx) ==
    IF hex THEN bc_num_printHex(o, n, len, rdx)
    ELSE bc_num_printDigits(o, n, len, rdx)

\* The first loop of bc_num_printNum: the integer part n1 is divided by the
\* base and the remainders are pushed.  v is [s, n1, n2, stack].
PrintNumInt(v, bs) ==
    IF BC_NO_SIG /\ v.s = BC_STATUS_SUCCESS /\ BC_NUM_NONZERO(v.n1)
    THEN LET r == bc_num_divArray(v.n1, bs, v.n2)
         IN IF r.s # BC_STATUS_SUCCESS THEN [v EXCEPT !.s = r.s, !.n2 = r.n]
            ELSE Call("PrintNumInt", <<[s |-> r.s, n1 |-> r.n, n2 |-> v.n1,
                              stack |-> Append(v.stack, r.rem)], bs>>)
    ELSE v

\* The second loop of bc_num_printNum: the stack is printed from its top.
\* v is [o, i].
PrintNumStack(v, stack, hex, len) ==
    IF BC_NO_SIG /\ v.i < Len(stack)
    THEN Call("PrintNumStack", <<[o |-> PrintDigit(v.o, hex, stack[Len(stack) - v.i],
                                         len, FALSE),
                        i |-> v.i + 1], stack, hex, len>>)
    ELSE v

\* The end of a turn of the third loop of bc_num_printNum: the digit is
\* printed and the place value n1 is multiplied by the base, giving m2.
PrintNumFracPlace(v, fracp2, digit, sb, o, m2) ==
    IF m2.s # BC_STATUS_SUCCESS
    THEN [v EXCEPT !.s = m2.s, !.o = o, !.fracp2 = fracp2,
                   !.digit = digit, !.fracp1 = sb.n, !.n2 = m2.n]
    ELSE [s |-> m2.s, o |-> o, fracp1 |-> sb.n, fracp2 |-> fracp2,
          digit |-> digit, n1 |-> m2.n, n2 |-> v.n1, radix |-> FALSE]

\* A turn of the third loop after the digit left the fraction, giving sb.
PrintNumFracSub(v, bs, hex, len, fracp2, dig, digit, sb) ==
    IF sb.s # BC_STATUS_SUCCESS
    THEN [v EXCEPT !.s = sb.s, !.fracp2 = fracp2, !.digit = digit,
                   !.fracp1 = sb.n]
    ELSE PrintNumFracPlace(v, fracp2, digit, sb,
                           PrintDigit(v.o, hex, dig.v, len, v.radix),
                           bc_num_mulArray(v.n1, bs, v.n2))

\* A turn of the third loop after the integer part dig of fracp2 was read.
PrintNumFracDigit(v, bs, hex, len, fracp2, dig, digit) ==
    IF dig.s # BC_STATUS_SUCCESS
    THEN [v EXCEPT !.s = dig.s, !.fracp2 = fracp2]
    ELSE PrintNumFracSub(v, bs, hex, len, fracp2, dig, digit,
                         Call("bc_num_sub", <<fracp2, digit, v.fracp1, FALSE>>))

\* A turn of the third loop with fracp2 the fraction times the base.
PrintNumFracTimes(v, bs, hex, len, fracp2, dig) ==
    PrintNumFracDigit(v, bs, hex, len, fracp2, dig,
                      bc_num_bigdig2num(v.digit, dig.v))

\* A turn of the third loop after the multiplication gave m.
PrintNumFracMul(v, bs, sc, hex, len, m) ==
    IF m.s # BC_STATUS_SUCCESS THEN [v EXCEPT !.s = m.s, !.fracp2 = m.n]
    ELSE PrintNumFracTimes(
             v, bs, hex, len,
             [m.n EXCEPT !.scale = sc, !.rdx = BC_NUM_RDX(sc)],
             bc_num_bigdig([m.n EXCEPT !.scale = sc, !.rdx = BC_NUM_RDX(sc)]))

\* One turn of the third loop of bc_num_printNum, on the fraction.  v is
\* [s, o, fracp1, fracp2, digit, n1, n2, radix]; sc is n->scale.
PrintNumFracStep(v, bs, sc, hex, len) ==
    PrintNumFracMul(v, bs, sc, hex, len,
                    bc_num_mulArray(v.fracp1, bs,
                                    bc_num_expand(v.fracp2, v.fracp1.len + 1)))

\* The third loop of bc_num_printNum.
PrintNumFrac(v, bs, sc, hex, len) ==
    IF /\ v.s = BC_STATUS_SUCCESS
       /\ BC_NO_SIG
       /\ bc_num_intDigits(v.n1) < sc + 1
    THEN Call("PrintNumFrac", <<PrintNumFracStep(v, bs, sc, hex, len), bs, sc, hex, len>>)
    ELSE v

\* The end of bc_num_printNum: the fraction was printed, giving fp.
PrintNumEnd(fp) ==
    [s |-> IF fp.s = BC_STATUS_SUCCESS /\ BC_SIG
           THEN BC_STATUS_SIGNAL ELSE fp.s,
     o |-> fp.o]

\* bc_num_printNum after the stack was printed into o1.
PrintNumPoint(n, bs, len, hex, fr, ip, o1) ==
    IF BC_SIG THEN [s |-> BC_STATUS_SIGNAL, o |-> o1]
    ELSE IF n.scale = 0 THEN [s |-> ip.s, o |-> o1]
    ELSE PrintNumEnd(
             Call("PrintNumFrac", <<[s |-> BC_STATUS_SUCCESS, o |-> o1,
                           fracp1 |-> fr.n, fracp2 |-> bc_num_init(n.rdx),
                           digit |-> bc_num_setup(
                               Fill(BC_NUM_BIGDIG_LOG10 + 1, Junk)),
                           n1 |-> bc_num_one(
                               bc_num_init(BC_NUM_BIGDIG_LOG10 + 1)),
                           n2 |-> bc_num_init(BC_NUM_BIGDIG_LOG10 + 1),
                           radix |-> TRUE], bs, n.scale, hex, len>>))

\* bc_num_printNum after the first loop gave ip.
PrintNumDigits(o, n, bs, len, hex, fr, ip) ==
    IF ip.s # BC_STATUS_SUCCESS THEN [s |-> ip.s, o |-> o]
    ELSE PrintNumPoint(n, bs, len, hex, fr, ip,
                       Call("PrintNumStack", <<[o |-> o, i |-> 0], ip.stack, hex,
                                     len>>).o)

\* bc_num_printNum with intp1 the integer part and fr the fraction.
PrintNumParts(o, n, bs, len, hex, intp1, fr) ==
    IF fr.s # BC_STATUS_SUCCESS THEN [s |-> fr.s, o |-> o]
    ELSE PrintNumDigits(o, n, bs, len, hex, fr,
                        Call("PrintNumInt", <<[s |-> BC_STATUS_SUCCESS, n1 |-> intp1,
                                     n2 |-> bc_num_init(intp1.len),
                                     stack |-> <<>>], bs>>))

\* bc_num_printNum of a nonzero n whose integer part is intp1.
PrintNumSplit(o, n, bs, len, hex, intp1) ==
    PrintNumParts(o, n, bs, len, hex, intp1,
                  Call("bc_num_sub", <<n, intp1, bc_num_init(n.rdx), FALSE>>))

\* bc_num_printNum(n, base, len, print): [s, o], the status and the sink.
bc_num_printNum(o, n, bs, len, hex) ==
    IF BC_NUM_ZERO(n)
    THEN [s |-> BC_STATUS_SUCCESS, o |-> PrintDigit(o, hex, 0, len, FALSE)]
    ELSE PrintNumSplit(o, n, bs, len, hex,
                       bc_num_truncate(bc_num_createCopy(n), n.scale))

bc_num_printBase(o, n, bs) ==
    LET o1 == IF n.neg THEN bc_num_putchar(o, CharMinus) ELSE o
        m == [n EXCEPT !.neg = FALSE]
    IN IF bs <= BC_NUM_MAX_POSIX_IBASE THEN Call("bc_num_printNum", <<o1, m, bs, 1, TRUE>>)
       ELSE Call("bc_num_printNum", <<o1, m, bs, bc_num_log10(bs - 1), FALSE>>)

\* The loop of bc_num_printExponent leaving at its first turn.
ExponentPlaces_none(cell, i) == 0

\* The loop of bc_num_printExponent over the powers of ten below a cell:
\* the count of digit positions of the cell that are zero, from the top.
ExponentPlaces(cell, i) ==
    IF i >= 0 /\ bc_num_pow10(i) > cell THEN 1 + Call("ExponentPlaces", <<cell, i - 1>>)
    ELSE 0

bc_num_printExponent(o, n, eng) ==
    LET neg == n.len <= n.rdx
        temp == bc_num_createCopy(n)
        idx == bc_num_nonzeroLen(n) - 1
        pl0 == IF neg
               THEN 1 + Call("ExponentPlaces", <<n.num[idx + 1], BC_BASE_DIGS - 1>>) +
                    (n.rdx - (idx + 1)) * BC_BASE_DIGS
               ELSE bc_num_intDigits(n) - 1
        mod == pl0 % 3
        places == IF eng /\ mod # 0
                  THEN IF neg THEN pl0 + (3 - mod) ELSE pl0 - (3 - (3 - mod))
                  ELSE pl0
        sh == IF neg THEN Call("bc_num_shiftLeft", <<temp, places>>)
              ELSE Call("bc_num_shiftRight", <<temp, places>>)
        o1 == bc_num_putchar(bc_num_printDecimal(o, sh.n), CharE)
        exp == bc_num_bigdig2num(
                   bc_num_setup(Fill(BC_NUM_BIGDIG_LOG10, Junk)), places)
        o2 == IF places = 0 THEN bc_num_printHex(o1, 0, 1, FALSE)
              ELSE bc_num_printDecimal(
                       IF neg THEN bc_num_putchar(o1, CharMinus) ELSE o1, exp)
    IN [s |-> IF BC_SIG THEN BC_STATUS_SIGNAL ELSE BC_STATUS_SUCCESS,
        o |-> IF sh.s # BC_STATUS_SUCCESS THEN o ELSE o2]

\* bc_num_print(n, base, newline): [s, o], the status and the sink.
bc_num_print(o, n, bs, newline) ==
    LET o1 == bc_num_printNewline(o)
        r == IF BC_NUM_ZERO(n)
             THEN [s |-> BC_STATUS_SUCCESS,
                   o |-> bc_num_printHex(o1, 0, 1, FALSE)]
             ELSE IF bs = BC_BASE
             THEN [s |-> BC_STATUS_SUCCESS, o |-> bc_num_printDecimal(o1, n)]
             ELSE IF bs = 0 \/ bs = 1
             THEN Call("bc_num_printExponent", <<o1, n, bs # 0>>)
             ELSE Call("bc_num_printBase", <<o1, n, bs>>)
    IN IF r.s = BC_STATUS_SUCCESS /\ newline
       THEN [s |-> r.s, o |-> bc_num_putchar(r.o, CharNewline)]
       ELSE r

(***************************************************************************)
(* A call of one routine by another, or by the caller of the library: f is *)
(* the routine's name and p the tuple of its arguments.                    *)
(***************************************************************************)
Call(f, p) ==
    CASE f = "SimpInner" -> SimpInner(p[1], p[2], p[3], p[4], p[5], p[6])
      [] f = "SimpOuter" -> SimpOuter(p[1], p[2], p[3], p[4], p[5])
      [] f = "DLongLower" -> DLongLower(p[1], p[2], p[3], p[4], p[5], p[6])
      [] f = "DLongRefine" -> DLongRefine(p[1], p[2], p[3], p[4], p[5], p[6])
      [] f = "DLongLoop" -> DLongLoop(p[1], p[2], p[3], p[4], p[5], p[6])
      [] f = "ToCells" -> ToCells(p[1])
      [] f = "BigdigLoop" -> BigdigLoop(p[1], p[2], p[3])
      [] f = "PowEven" -> PowEven(p[1], p[2], p[3])
      [] f = "PowRest" -> PowRest(p[1])
      [] f = "ModexpLoop" -> ModexpLoop(p[1], p[2], p[3])
      [] f = "SqrtLoop" -> SqrtLoop(p[1], p[2], p[3], p[4])
      [] f = "SkipZeros" -> SkipZeros(p[1])
      [] f = "ZeroScan" -> ZeroScan(p[1], p[2])
      [] f = "ParseDigits" -> ParseDigits(p[1], p[2])
      [] f = "StrValidFrom" -> StrValidFrom(p[1], p[2], p[3])
      [] f = "ParseBaseInt" -> ParseBaseInt(p[1], p[2], p[3])
      [] f = "ParseBaseFrac" -> ParseBaseFrac(p[1], p[2], p[3])
      [] f = "PrintDigitsLoop" -> PrintDigitsLoop(p[1], p[2], p[3], p[4])
      [] f = "PrintCell" -> PrintCell(p[1], p[2], p[3], p[4], p[5])
      [] f = "PrintCells" -> PrintCells(p[1], p[2], p[3])
      [] f = "PrintNumInt" -> PrintNumInt(p[1], p[2])
      [] f = "PrintNumStack" -> PrintNumStack(p[1], p[2], p[3], p[4])
      [] f = "PrintNumFrac" -> PrintNumFrac(p[1], p[2], p[3], p[4], p[5])
      [] f = "ExponentPlaces" -> ExponentPlaces(p[1], p[2])
      [] f = "bc_num_add" -> bc_num_add(p[1], p[2], p[3], p[4])
      [] f = "bc_num_sub" -> bc_num_sub(p[1], p[2], p[3], p[4])
      [] f = "bc_num_mul" -> bc_num_mul(p[1], p[2], p[3], p[4], p[5])
      [] f = "bc_num_div" -> bc_num_div(p[1], p[2], p[3], p[4], p[5])
      [] f = "bc_num_mod" -> bc_num_mod(p[1], p[2], p[3], p[4], p[5])
      [] f = "bc_num_rem" -> bc_num_rem(p[1], p[2], p[3], p[4])
      [] f = "bc_num_divmod" -> bc_num_divmod(p[1], p[2], p[3], p[4], p[5], p[6])
      [] f = "bc_num_pow" -> bc_num_pow(p[1], p[2], p[3], p[4], p[5])
      [] f = "bc_num_modexp" -> bc_num_modexp(p[1], p[2], p[3], p[4])
      [] f = "bc_num_sqrt" -> bc_num_sqrt(p[1], p[2], p[3])
      [] f = "bc_num_parse" -> bc_num_parse(p[1], p[2], p[3], p[4])
      [] f = "bc_num_print" -> bc_num_print(p[1], p[2], p[3], p[4])
      [] f = "bc_num_m" -> bc_num_m(p[1], p[2], p[3], p[4])
      [] f = "bc_num_k" -> bc_num_k(p[1], p[2], p[3])
      [] f = "bc_num_d" -> bc_num_d(p[1], p[2], p[3], p[4])
      [] f = "bc_num_r" -> bc_num_r(p[1], p[2], p[3], p[4], p[5], p[6])
      [] f = "bc_num_p" -> bc_num_p(p[1], p[2], p[3], p[4])
      [] f = "bc_num_inv" -> bc_num_inv(p[1], p[2], p[3], p[4])
      [] f = "bc_num_shiftLeft" -> bc_num_shiftLeft(p[1], p[2])
      [] f = "bc_num_shiftRight" -> bc_num_shiftRight(p[1], p[2])
      [] f = "bc_num_retireMul" -> bc_num_retireMul(p[1], p[2], p[3], p[4])
      [] f = "bc_num_d_long" -> bc_num_d_long(p[1], p[2], p[3], p[4])
      [] f = "bc_num_places" -> bc_num_places(p[1], p[2], p[3], p[4], p[5])
      [] f = "bc_num_lshift" -> bc_num_lshift(p[1], p[2], p[3], p[4], p[5])
      [] f = "bc_num_rshift" -> bc_num_rshift(p[1], p[2], p[3], p[4], p[5])
      [] f = "bc_num_printNum" -> bc_num_printNum(p[1], p[2], p[3], p[4], p[5])
      [] f = "bc_num_printBase" -> bc_num_printBase(p[1], p[2], p[3])
      [] f = "bc_num_printExponent" -> bc_num_printExponent(p[1], p[2], p[3])
      [] f = "bc_num_parseBase" -> bc_num_parseBase(p[1], p[2], p[3])
      [] f = "bc_num_parseDecimal" -> bc_num_parseDecimal(p[1], p[2])
      [] f = "bc_num_a" -> bc_num_a(p[1], p[2], p[3], p[4])
      [] f = "bc_num_s" -> bc_num_s(p[1], p[2], p[3], p[4])
      [] f = "bc_num_place" -> bc_num_place(p[1], p[2], p[3], p[4])
      [] f = "bc_num_left" -> bc_num_left(p[1], p[2], p[3], p[4])
      [] f = "bc_num_right" -> bc_num_right(p[1], p[2], p[3], p[4])

(***************************************************************************)
(* The numbers the operations are run on.                                  *)
(***************************************************************************)
MaxScale == 3
MaxChain == 1
MaxPlaces == 7
MaxPow == 7
MaxFeedLen == 5

\* Magnitudes, as unscaled decimal integers: u with scale s is u / 10^s.
Vals == {0, 1, 2, 7, 10, 50, 99, 100, 101, 250, 999, 1000, 1234, 9999}

Scales == 0..MaxScale

\* The decimal digits of u, most significant first.
RECURSIVE DecDigits(_)
DecDigits(u) ==
    IF u < BC_BASE THEN <<CharZero + u>>
    ELSE DecDigits(u \div BC_BASE) \o <<CharZero + (u % BC_BASE)>>

\* The string of the decimal u / 10^s, with s digits after the point.
DecStr(u, s) ==
    LET ds == DecDigits(u)
        ps == IF Len(ds) <= s THEN Fill(s + 1 - Len(ds), CharZero) \o ds
              ELSE ds
        k == Len(ps) - s
    IN IF s = 0 THEN ps
       ELSE SubSeq(ps, 1, k) \o <<CharDot>> \o SubSeq(ps, k + 1, Len(ps))

\* The number parsed from the decimal u / 10^s, negated by the caller if ng.
Negated(n, ng) == [n EXCEPT !.neg = ng /\ BC_NUM_NONZERO(n)]

MkNum(u, s, ng) ==
    Negated(Call("bc_num_parse", <<bc_num_init(BC_NUM_DEF_SIZE), DecStr(u, s),
                                   BC_BASE, FALSE>>).n, ng)

Nums == {MkNum(u, s, ng) : u \in Vals, s \in Scales, ng \in BOOLEAN}

(***************************************************************************)
(* Reference arithmetic, used to state the properties.                     *)
(***************************************************************************)
RECURSIVE IntOf(_)
IntOf(cells) ==
    IF cells = <<>> THEN 0 ELSE cells[1] + BC_BASE_POW * IntOf(Tail(cells))

\* The magnitude of n as an integer count of units of 10^-n.scale.
Mag(n) ==
    IF n.len = 0 THEN 0
    ELSE IntOf(Digits(n)) \div bc_num_pow10(n.rdx * BC_BASE_DIGS - n.scale)

\* The value of n in units of 10^-n.scale.
UVal(n) == IF n.neg THEN 0 - Mag(n) ELSE Mag(n)

\* The value of n in units of 10^-s, for s >= n.scale.
ValAt(n, s) == UVal(n) * bc_num_pow10(s - n.scale)

Sgn(i) == IF i < 0 THEN 0 - 1 ELSE IF i > 0 THEN 1 ELSE 0

\* u * 10^e is a number the reference arithmetic can hold.
Fits(u, e) == e <= 9 /\ u <= 2147483647 \div bc_num_pow10(e)

\* x and y are the same number: the same fields and the same digits.
SameNumber(x, y) ==
    /\ x.len = y.len
    /\ x.rdx = y.rdx
    /\ x.scale = y.scale
    /\ x.neg = y.neg
    /\ Digits(x) = Digits(y)

(***************************************************************************)
(* State machine.                                                          *)
(***************************************************************************)
\* The state before a call on the operands x and y, which bc_num_parse has
\* just returned, with the number z in c.
\* vm->line_len (vm.h) as the interpreter sets it when the environment
\* names no other length.
BC_NUM_PRINT_WIDTH == 70

\* The sink before anything is written to it.
Sink(ll) == [nchars |-> 0, line_len |-> ll, out |-> <<>>]

\* The value of frame while no function is followed step by step.
NoFrame == <<>>

\* An operation about to run on a, b and the requested scale, writing c,
\* with the sink wrapping at ll and numbers read in base bs.
ReadyAt(x, y, z, sc, bs, ll, sg) ==
    /\ pc = "ready"
    /\ op = "parse"
    /\ a = x
    /\ b = y
    /\ scale = sc
    /\ c = z
    /\ d = bc_num_init(0)
    /\ st = BC_STATUS_SUCCESS
    /\ ret = 0
    /\ hops = 0
    /\ sig_received = sg
    /\ ibase = bs
    /\ vm = Sink(ll)
    /\ karatsuba_len = BC_NUM_KARATSUBA_LEN
    /\ frame = NoFrame

ReadyWith(x, y, z, sc) ==
    ReadyAt(x, y, z, sc, BC_BASE, BC_NUM_PRINT_WIDTH, FALSE)

\* The same with a newly initialised c.
Ready(x, y, sc) == ReadyWith(x, y, bc_num_init(0), sc)

\* The end of an operation that writes c alone.
Return(name, r) ==
    /\ pc' = "done"
    /\ op' = name
    /\ c' = r.n
    /\ st' = r.s
    /\ UNCHANGED <<a, b, scale, d, ret, hops, sig_received, ibase, vm,
                   karatsuba_len, frame>>

Add == pc = "ready" /\ Return("add", Call("bc_num_add", <<a, b, c, FALSE>>))

Sub == pc = "ready" /\ Return("sub", Call("bc_num_sub", <<a, b, c, FALSE>>))

Mul == pc = "ready" /\ Return("mul", Call("bc_num_mul", <<a, b, c, scale, FALSE>>))

Div == pc = "ready" /\ Return("div", Call("bc_num_div", <<a, b, c, scale, FALSE>>))

Mod == pc = "ready" /\ Return("mod", Call("bc_num_mod", <<a, b, c, scale, FALSE>>))

\* The operand b of places, lshift and rshift is a count of decimal places:
\* it is kept small, unless it is one the operation rejects.
PlacesArg(n) ==
    \/ n.rdx # 0
    \/ n.neg
    \/ IntOf(Digits(n)) <= MaxPlaces
    \/ IntOf(Digits(n)) > BC_NUM_BIGDIG_MAX

Places ==
    /\ pc = "ready"
    /\ PlacesArg(b)
    /\ Return("places", Call("bc_num_places", <<a, b, c, scale, FALSE>>))

LShift ==
    /\ pc = "ready"
    /\ PlacesArg(b)
    /\ Return("lshift", Call("bc_num_lshift", <<a, b, c, scale, FALSE>>))

RShift ==
    /\ pc = "ready"
    /\ PlacesArg(b)
    /\ Return("rshift", Call("bc_num_rshift", <<a, b, c, scale, FALSE>>))

\* The exponent of pow is kept small, unless it is one pow rejects.
PowArg(n) ==
    \/ n.rdx # 0
    \/ IntOf(Digits(n)) <= MaxPow
    \/ IntOf(Digits(n)) > BC_NUM_BIGDIG_MAX

Pow ==
    /\ pc = "ready"
    /\ PowArg(b)
    /\ Return("pow", Call("bc_num_pow", <<a, b, c, scale, FALSE>>))

\* BcStatus bc_num_modexp(BcNum *a, BcNum *b, BcNum *c, BcNum *restrict d):
\* the modulus is the number in c, the result goes to d.
ReturnModexp(r) ==
    /\ pc' = "done"
    /\ op' = "modexp"
    /\ d' = r.n
    /\ st' = r.s
    /\ UNCHANGED <<a, b, scale, c, ret, hops, sig_received, ibase, vm,
                   karatsuba_len, frame>>

Modexp == pc = "ready" /\ ReturnModexp(Call("bc_num_modexp", <<a, b, c, d>>))

\* BcStatus bc_num_divmod(BcNum *a, BcNum *b, BcNum *c, BcNum *d, size_t scale)
ReturnDivmod(r) ==
    /\ pc' = "done"
    /\ op' = "divmod"
    /\ c' = r.c
    /\ d' = r.d
    /\ st' = r.s
    /\ UNCHANGED <<a, b, scale, ret, hops, sig_received, ibase, vm,
                   karatsuba_len, frame>>

Divmod ==
    /\ pc = "ready"
    /\ ReturnDivmod(Call("bc_num_divmod", <<a, b, c, d, scale, FALSE>>))

\* BcStatus bc_num_sqrt(BcNum *restrict a, BcNum *restrict b, size_t scale):
\* the caller's output number is c.
Sqrt == pc = "ready" /\ Return("sqrt", Call("bc_num_sqrt", <<a, c, scale>>))

(***************************************************************************)
(* bc_num_sqrt one turn of its loop at a time: frame holds its locals and  *)
(* the number of turns taken.                                              *)
(***************************************************************************)
\* The most turns of the loop that are followed.
MaxTurns == 40

\* bc_num_sqrt of a negative number, of zero and of one returns before its
\* loop.
SqrtShort ==
    /\ pc = "ready"
    /\ a.neg \/ BC_NUM_ZERO(a) \/ BC_NUM_ONE(a)
    /\ Return("sqrt", Call("bc_num_sqrt", <<a, c, scale>>))

\* bc_num_sqrt up to its loop.
SqrtEnter ==
    /\ pc = "ready"
    /\ ~(a.neg \/ BC_NUM_ZERO(a) \/ BC_NUM_ONE(a))
    /\ pc' = "sqrt"
    /\ frame' = [locals |-> SqrtFrame(a, BC_MAX(a.scale, scale)),
                 turns |-> 0]
    /\ UNCHANGED <<op, a, b, scale, c, d, st, ret, hops, sig_received,
                   ibase, vm, karatsuba_len>>

\* One turn of the loop.
SqrtIterate ==
    /\ pc = "sqrt"
    /\ SqrtGoesOn(frame.locals.v, frame.locals.len)
    /\ frame.turns < MaxTurns
    /\ frame' = [frame EXCEPT !.locals.v = SqrtStep(@, a, SqrtHalf),
                              !.turns = @ + 1]
    /\ UNCHANGED <<pc, op, a, b, scale, c, d, st, ret, hops, sig_received,
                   ibase, vm, karatsuba_len>>

\* The loop has ended and bc_num_sqrt returns; frame keeps the locals as
\* the loop left them.
SqrtLeave ==
    /\ pc = "sqrt"
    /\ ~SqrtGoesOn(frame.locals.v, frame.locals.len)
    /\ Return("sqrt", SqrtEnd(frame.locals.scl, frame.locals.b0,
                              frame.locals.v))

\* ssize_t bc_num_cmp(const BcNum *a, const BcNum *b)
Cmp ==
    /\ pc = "ready"
    /\ pc' = "done"
    /\ op' = "cmp"
    /\ ret' = bc_num_cmp(a, b)
    /\ UNCHANGED <<a, b, scale, c, d, st, hops, sig_received, ibase, vm,
                   karatsuba_len, frame>>

\* BcStatus bc_num_print(BcNum *restrict n, BcBigDig base, bool newline):
\* a is printed in base ibase to the sink.
ReturnPrint(name, r) ==
    /\ pc' = "done"
    /\ op' = name
    /\ vm' = r.o
    /\ st' = r.s
    /\ UNCHANGED <<a, b, scale, c, d, ret, hops, sig_received, ibase,
                   karatsuba_len, frame>>

PrintOut ==
    /\ pc = "ready"
    /\ \E newline \in BOOLEAN :
          ReturnPrint(IF newline THEN "println" ELSE "print",
                      Call("bc_num_print", <<vm, a, ibase, newline>>))

\* BcStatus bc_num_parse(BcNum *restrict n, const char *restrict val,
\*                       BcBigDig base, bool letter)
\* with letter false, on the characters the sink holds, into a newly
\* initialised c.  A string that bc_num_strValid turns down stops the program
\* at the assertion.
ReturnParse(r) ==
    /\ pc' = "parsed"
    /\ c' = r.n
    /\ st' = r.s

Parse ==
    /\ pc = "done"
    /\ op \in {"print", "println"}
    /\ st = BC_STATUS_SUCCESS
    /\ IF bc_num_strValid(vm.out)
       THEN ReturnParse(Call("bc_num_parse",
                             <<bc_num_init(BC_NUM_DEF_SIZE), vm.out, ibase,
                               FALSE>>))
       ELSE /\ pc' = "aborted"
            /\ UNCHANGED <<c, st, karatsuba_len, frame>>
    /\ UNCHANGED <<op, a, b, scale, d, ret, hops, sig_received, ibase, vm,
                   karatsuba_len, frame>>

\* bc_num_parse with letter false on the decimal digits of a, read in base
\* ibase, an input base, into a newly initialised c.
ParseInput ==
    /\ pc = "ready"
    /\ ibase > 1
    /\ Return("parse",
              Call("bc_num_parse", <<bc_num_init(BC_NUM_DEF_SIZE),
                                     DecStr(Mag(a), a.scale), ibase, FALSE>>))

\* bc_num_parse with letter true, on one character, kept in ret.
ReturnLetter(ch, r) ==
    /\ pc' = "done"
    /\ op' = "letter"
    /\ ret' = ch
    /\ c' = r.n
    /\ st' = r.s
    /\ UNCHANGED <<a, b, scale, d, hops, sig_received, ibase, vm,
                   karatsuba_len, frame>>

ParseLetter ==
    /\ pc = "ready"
    /\ \E ch \in (CharZero..CharNine) \cup (CharA..(CharA + 25)) :
          ReturnLetter(ch, Call("bc_num_parse",
                                <<bc_num_init(BC_NUM_DEF_SIZE), <<ch>>, ibase,
                                  TRUE>>))

\* The caller takes the result of a successful call as the first operand of
\* its next call; c and d stay what the call left in them.  Only results of
\* at most MaxFeedLen cells are taken on, and none that has cells but fewer
\* than its rdx: bc_num_int of such a number wraps around, and the requests
\* bc_num_addReq and bc_num_mulReq make of bc_vm_growSize then overflow.
Feed ==
    /\ pc = "done"
    /\ st = BC_STATUS_SUCCESS
    /\ op # "cmp"
    /\ hops < MaxChain
    /\ pc' = "ready"
    /\ op' = "none"
    /\ hops' = hops + 1
    /\ \E r \in (IF op = "divmod" THEN {c, d} ELSE IF op = "modexp" THEN {d}
                 ELSE {c}) :
          /\ r.len <= MaxFeedLen
          /\ (r.len = 0 \/ r.len >= r.rdx)
          /\ a' = bc_num_createCopy(r)
    /\ UNCHANGED <<b, scale, c, d, st, ret, sig_received, ibase, vm,
                   karatsuba_len, frame>>

\* The numbers a sequence of calls starts from.
Seeds ==
    {MkNum(t[1], t[2], t[3]) :
        t \in ({0, 1, 7, 15555} \X {0, MaxScale} \X BOOLEAN)
                  \cup {<<70000, 0, FALSE>>}}

Init == \E x, y \in Seeds, sc \in {0, MaxScale} : Ready(x, y, sc)

Next ==
    \/ Add
    \/ Sub
    \/ Mul
    \/ Div
    \/ Mod
    \/ Divmod
    \/ Pow
    \/ Places
    \/ LShift
    \/ RShift
    \/ Modexp
    \/ SqrtShort
    \/ SqrtEnter
    \/ SqrtIterate
    \/ SqrtLeave
    \/ Cmp
    \/ Feed

Spec == Init /\ [][Next]_vars

\* The numbers the last call returned with BC_STATUS_SUCCESS.
Returned ==
    IF pc = "ready" /\ op = "parse" THEN {a, b}
    ELSE IF pc # "done" \/ st # BC_STATUS_SUCCESS \/ op = "cmp" THEN {}
    ELSE IF op = "divmod" THEN {c, d}
    ELSE IF op = "modexp" THEN {d}
    ELSE {c}

\* The statuses of the mathematical errors.
MathErrors ==
    {BC_ERROR_MATH_NEGATIVE, BC_ERROR_MATH_NON_INTEGER,
     BC_ERROR_MATH_OVERFLOW, BC_ERROR_MATH_DIVIDE_BY_ZERO}

InitCmp == \E x, y \in Nums : Ready(x, y, 0)

NextCmp == Cmp

SpecCmp == InitCmp /\ [][NextCmp]_vars

(***************************************************************************)
(* C1: cmp(a, b) is negative iff a < b, zero iff a = b and positive iff    *)
(* a > b, for all valid a and b of any signs and lengths, in particular    *)
(* when both are negative with different numbers of integer cells.         *)
(***************************************************************************)
CmpReflectsOrder ==
    (pc = "done" /\ op = "cmp" /\ ret # BC_NUM_CMP_SIGNAL) =>
        Sgn(ret) = Sgn(ValAt(a, MaxScale) - ValAt(b, MaxScale))

(***************************************************************************)
(* Division of any two numbers at any scale, into a newly initialised c.   *)
(***************************************************************************)
InitDiv ==
    \E x, y \in Nums, sc \in Scales :
        Fits(Mag(x), BC_NUM_RDX(sc) * BC_BASE_DIGS + y.scale) /\ Ready(x, y, sc)

NextDiv == Div

SpecDiv == InitDiv /\ [][NextDiv]_vars

\* a / b truncated toward zero at s places, in units of 10^-s.
Quotient(x, y, s) ==
    (Mag(x) * bc_num_pow10(s + y.scale)) \div (Mag(y) * bc_num_pow10(x.scale))

(***************************************************************************)
(* C2: for every a, every nonzero b and every scale s, div into a newly    *)
(* initialised c succeeds, c has scale s and is the quotient a / b         *)
(* truncated toward zero at s places, and c is negative iff exactly one    *)
(* of a and b is negative and the truncated quotient is not zero.          *)
(***************************************************************************)
DivIsTruncatedQuotient ==
    (pc = "done" /\ op = "div" /\ BC_NUM_NONZERO(b)) =>
        /\ st = BC_STATUS_SUCCESS
        /\ c.scale = scale
        /\ Mag(c) = Quotient(a, b, scale)
        /\ c.neg = (a.neg # b.neg /\ Quotient(a, b, scale) # 0)

\* A long division with a fractional divisor of several cells, operands of
\* different signs and a quotient that is not zero.
DivWitness ==
    /\ pc = "done"
    /\ op = "div"
    /\ b.len > 1
    /\ b.rdx > 0
    /\ a.neg # b.neg
    /\ scale > 0
    /\ c.neg
    /\ c.len > c.rdx

(***************************************************************************)
(* Multiplication of any two numbers at any scale, and of integers long    *)
(* enough for bc_num_k to split them.                                      *)
(***************************************************************************)
BigDigits == {2, 7}

\* The integer h * BC_BASE_POW^BC_NUM_KARATSUBA_LEN + l, parsed from its
\* decimal string.
BigNum(h, l, ng) ==
    LET str == <<CharZero + h>> \o
               Fill(BC_NUM_KARATSUBA_LEN * BC_BASE_DIGS - 1, CharZero) \o
               <<CharZero + l>>
    IN [Call("bc_num_parse",
             <<bc_num_init(BC_NUM_DEF_SIZE), str, BC_BASE, FALSE>>).n
           EXCEPT !.neg = ng]

BigNums == {BigNum(h, l, ng) : h \in BigDigits, l \in BigDigits, ng \in BOOLEAN}

InitMul ==
    \/ \E x, y \in Nums, sc \in Scales : Ready(x, y, sc)
    \/ \E x, y \in BigNums, sc \in Scales : Ready(x, y, sc)

NextMul == Mul

SpecMul == InitMul /\ [][NextMul]_vars

\* The scale mul gives its result.
MulScale(x, y, s) ==
    BC_MIN(BC_MAX(s, BC_MAX(x.scale, y.scale)), x.scale + y.scale)

\* |a * b| truncated at e places, in units of 10^-e.
Product(x, y, e) ==
    (Mag(x) * Mag(y)) \div bc_num_pow10(x.scale + y.scale - e)

\* The cells of the product of two numbers of BigNums: no cell carries.
BigProduct(x, y) ==
    LET hx == x.num[x.len]
        hy == y.num[y.len]
        lx == x.num[1]
        ly == y.num[1]
    IN <<lx * ly>> \o Zeros(BC_NUM_KARATSUBA_LEN - 1) \o
       <<hx * ly + lx * hy>> \o Zeros(BC_NUM_KARATSUBA_LEN - 1) \o
       <<hx * hy>>

(***************************************************************************)
(* C3: for all a, b and requested scale s, mul succeeds and c is the exact *)
(* product a * b truncated toward zero at                                  *)
(* e = min(max(s, a.scale, b.scale), a.scale + b.scale) places, with       *)
(* c.scale = e, on the single-cell path and on the general path.           *)
(***************************************************************************)
MulIsTruncatedProduct ==
    (pc = "done" /\ op = "mul") =>
        LET e == MulScale(a, b, scale)
        IN /\ st = BC_STATUS_SUCCESS
           /\ c.scale = e
           /\ IF a.len > BC_NUM_KARATSUBA_LEN
              THEN /\ Digits(c) = BigProduct(a, b)
                   /\ c.rdx = 0
                   /\ c.neg = (a.neg # b.neg)
              ELSE /\ Mag(c) = Product(a, b, e)
                   /\ Product(a, b, e) # 0 => c.neg = (a.neg # b.neg)

\* A product of two fractions of several cells that loses digits to the
\* truncation.
MulWitness ==
    /\ pc = "done"
    /\ op = "mul"
    /\ a.len > 1
    /\ b.len > 1
    /\ a.rdx > 0
    /\ b.rdx > 0
    /\ a.neg # b.neg
    /\ c.scale < a.scale + b.scale
    /\ c.neg

(***************************************************************************)
(* divmod of any two numbers, into a newly initialised c and d.            *)
(***************************************************************************)
InitDivmod == \E x, y \in Nums, sc \in {0, MaxScale} : Ready(x, y, sc)

NextDivmod == Divmod

SpecDivmod == InitDivmod /\ [][NextDivmod]_vars

(***************************************************************************)
(* C4: for every a, every nonzero b and every scale, divmod leaves in c    *)
(* the number (value, sign, scale) div produces and in d the number rem    *)
(* produces, also when the divisor is a single-cell integer at scale 0.    *)
(***************************************************************************)
DivmodIsDivAndRem ==
    (pc = "done" /\ op = "divmod" /\ BC_NUM_NONZERO(b)) =>
        /\ SameNumber(c, Call("bc_num_div", <<a, b, bc_num_init(0), scale, FALSE>>).n)
        /\ SameNumber(d, Call("bc_num_mod", <<a, b, bc_num_init(0), scale, FALSE>>).n)

(***************************************************************************)
(* mod of integers at scale 0, into a newly initialised c.                 *)
(***************************************************************************)
Ints == {MkNum(u, 0, ng) : u \in Vals \cup {70000, 123456}, ng \in BOOLEAN}

InitMod == \E x, y \in Ints : Ready(x, y, 0)

NextMod == Mod

SpecMod == InitMod /\ [][NextMod]_vars

(***************************************************************************)
(* C5: for all integers a and nonzero integers b at scale 0,               *)
(* mul(div(a, b), b) + rem(a, b) = a, |rem(a, b)| < |b|, and rem(a, b) is  *)
(* zero or has the sign of a.                                              *)
(***************************************************************************)
IntegerDivisionIdentity ==
    (pc = "done" /\ op = "mod" /\ BC_NUM_NONZERO(b)) =>
        LET q == Call("bc_num_div", <<a, b, bc_num_init(0), 0, FALSE>>)
            m == Call("bc_num_mul", <<q.n, b, bc_num_init(0), 0, FALSE>>)
            sum == Call("bc_num_add", <<m.n, c, bc_num_init(0), FALSE>>)
        IN /\ st = BC_STATUS_SUCCESS
           /\ q.s = BC_STATUS_SUCCESS
           /\ m.s = BC_STATUS_SUCCESS
           /\ sum.s = BC_STATUS_SUCCESS
           /\ SameNumber(sum.n, a)
           /\ Mag(c) < Mag(b)
           /\ BC_NUM_ZERO(c) \/ c.neg = a.neg

\* A negative dividend of several cells, a positive divisor of several
\* cells and a remainder that is not zero.
ModWitness ==
    /\ pc = "done"
    /\ op = "mod"
    /\ a.neg
    /\ ~b.neg
    /\ a.len > 1
    /\ b.len > 1
    /\ BC_NUM_NONZERO(c)
    /\ c.neg

(***************************************************************************)
(* C6: over any sequence of operations on valid numbers, a number returned *)
(* with success has neg = false whenever its len is 0, also after a        *)
(* negative single-cell integer is multiplied by zero.                     *)
(***************************************************************************)
NoNegativeZero == \A n \in Returned : n.len = 0 => ~n.neg

(***************************************************************************)
(* C7: over any sequence of operations, a returned number has the value    *)
(* zero iff its len is 0: none has len > 0 with every cell zero, also      *)
(* after places on a zero operand.                                         *)
(***************************************************************************)
ZeroIffNoCells == \A n \in Returned : (n.len = 0) = ~AnyNonzero(n.num, n.len)

(***************************************************************************)
(* C8: every returned number with len > 0 has a top cell that is not zero, *)
(* numbers of a magnitude below one cell under the radix point included.   *)
(***************************************************************************)
TopCellNonzero == \A n \in Returned : n.len > 0 => n.num[n.len] # 0

(***************************************************************************)
(* C8, amended: every returned number with len > rdx has a top cell that   *)
(* is not zero; the top cells of a number with no integer cell may be 0.   *)
(***************************************************************************)
TopCellNonzeroAboveRadix ==
    \A n \in Returned : n.len > n.rdx => n.num[n.len] # 0

\* A chained call returned a fraction with integer cells, and one with none
\* and a zero top cell.
TopCellWitness ==
    /\ pc = "done"
    /\ hops > 0
    /\ op = "divmod"
    /\ st = BC_STATUS_SUCCESS
    /\ c.len > c.rdx
    /\ c.rdx > 0
    /\ d.len = d.rdx
    /\ d.len > 1
    /\ d.num[d.len] = 0

(***************************************************************************)
(* The dividing operations on divisors and moduli that are zero or not,    *)
(* with a number of an earlier call left in c.                             *)
(***************************************************************************)
Divisors ==
    {MkNum(u, s, ng) : u \in {0, 7, 250}, s \in {0, MaxScale}, ng \in BOOLEAN}

InitZeroDiv ==
    \E x \in Seeds, y, z \in Divisors, sc \in {0, MaxScale} :
        ReadyWith(x, y, z, sc)

NextZeroDiv == Div \/ Mod \/ Divmod \/ Modexp

SpecZeroDiv == InitZeroDiv /\ [][NextZeroDiv]_vars

(***************************************************************************)
(* C9: div, mod, divmod and modexp return DivideByZero whenever the        *)
(* divisor b (for modexp, the modulus c) is zero, whatever the other       *)
(* operands and the scale are, and have done no arithmetic by then: the    *)
(* numbers in c and d are the numbers that were there before the call.     *)
(***************************************************************************)
DivideByZeroFirst ==
    [][(pc = "ready" /\ pc' = "done") =>
           /\ (op' \in {"div", "mod", "divmod"} /\ BC_NUM_ZERO(b)) =>
                  /\ st' = BC_ERROR_MATH_DIVIDE_BY_ZERO
                  /\ SameNumber(c', c)
                  /\ SameNumber(d', d)
           /\ (op' = "modexp" /\ BC_NUM_ZERO(c)) =>
                  /\ st' = BC_ERROR_MATH_DIVIDE_BY_ZERO
                  /\ SameNumber(d', d)]_vars

\* div of zero by zero, with a number that is not zero left in c.
DivideByZeroWitness ==
    /\ pc = "done"
    /\ op = "div"
    /\ BC_NUM_ZERO(a)
    /\ BC_NUM_ZERO(b)
    /\ BC_NUM_NONZERO(c)
    /\ st = BC_ERROR_MATH_DIVIDE_BY_ZERO

(***************************************************************************)
(* C10: whenever div, mod, pow, modexp, places, lshift or rshift returns a *)
(* mathematical error, its output number is what it was before the call or *)
(* the canonical zero: no partial or copied operand value is left in it.   *)
(***************************************************************************)
MathErrorLeavesOutput ==
    [][(/\ pc = "ready"
        /\ pc' = "done"
        /\ op' \in {"div", "mod", "pow", "modexp", "places", "lshift", "rshift"}
        /\ st' \in MathErrors) =>
           LET before == IF op' = "modexp" THEN d ELSE c
               after == IF op' = "modexp" THEN d' ELSE c'
           IN \/ SameNumber(after, before)
              \/ after.len = 0 /\ after.rdx = 0 /\ ~after.neg]_vars

(***************************************************************************)
(* Square roots of numbers that are not negative, at any scale, into c.    *)
(* The operands are the ones whose value in units of 10^-2e, e being the   *)
(* scale of the root, the reference arithmetic can hold.                   *)
(***************************************************************************)
SqrtVals == Vals \cup {65536, 999999, 1000000}

InitSqrt ==
    \E u \in SqrtVals, s \in Scales, sc \in Scales :
        /\ Fits(u, 2 * BC_MAX(sc, s) - s)
        /\ Ready(MkNum(u, s, FALSE), bc_num_init(BC_NUM_DEF_SIZE), sc)

NextSqrt == Sqrt

SpecSqrt == InitSqrt /\ [][NextSqrt]_vars

(***************************************************************************)
(* C11: for every a that is not negative and every scale s, sqrt returns   *)
(* success with a root b >= 0 of scale max(s, a.scale) that is the square  *)
(* root of a truncated at that scale: b * b <= a < (b + 10^-b.scale)^2.    *)
(***************************************************************************)
SqrtIsTruncatedRoot ==
    (pc = "done" /\ op = "sqrt") =>
        LET e == BC_MAX(scale, a.scale)
            r == Mag(c)
            v == ValAt(a, 2 * e)
        IN /\ st = BC_STATUS_SUCCESS
           /\ ~c.neg
           /\ c.scale = e
           /\ r * r <= v
           /\ (r + 1) * (r + 1) > v

\* The root of a fraction with integer cells, which is not a whole number
\* and which the Newton iteration computed.
SqrtWitness ==
    /\ pc = "done"
    /\ op = "sqrt"
    /\ st = BC_STATUS_SUCCESS
    /\ a.rdx > 0
    /\ a.len > a.rdx
    /\ scale > a.scale
    /\ Mag(c) * Mag(c) < ValAt(a, 2 * scale)
    /\ c.len > c.rdx

(***************************************************************************)
(* Powers: bases of both signs and scales 0..2, exponents of both signs up *)
(* to MaxPow, and the largest exponents a BcBigDig holds on the bases 0, 1 *)
(* and -1.  The operands are the ones whose power the reference arithmetic *)
(* can hold.                                                               *)
(***************************************************************************)
\* u^n, or -1 when it is more than the reference arithmetic holds.
RECURSIVE RefPow(_, _)
RefPow(u, n) ==
    IF n = 0 THEN 1
    ELSE IF u <= 1 THEN u
    ELSE LET p == RefPow(u, n - 1)
         IN IF p < 0 \/ (u # 0 /\ p > 2147483647 \div u) THEN 0 - 1
            ELSE p * u

PowBases == {0, 1, 2, 7, 15, 100, 101}

PowExps == (0..MaxPow) \cup {BC_NUM_BIGDIG_MAX - 1, BC_NUM_BIGDIG_MAX}

\* The scale of pow(x, n) for n > 0.
PowScale(x, n, sc) == BC_MIN(x.scale * n, BC_MAX(sc, x.scale))

InitPow ==
    \E u \in PowBases, s \in 0..2, ng \in BOOLEAN, n \in PowExps,
       ngb \in BOOLEAN, sc \in Scales :
        /\ n > MaxPow => (u <= 1 /\ s = 0)
        /\ RefPow(u, n) >= 0
        /\ Fits(RefPow(u, n), 1)
        /\ Fits(1, s * n + (IF ngb THEN sc + 1 ELSE 0))
        /\ Ready(MkNum(u, s, ng), MkNum(n, 0, ngb), sc)

NextPow == Pow

SpecPow == InitPow /\ [][NextPow]_vars

RECURSIVE RefModPow(_, _, _)
RefModPow(u, n, m) ==
    IF n = 0 THEN 1 % m
    ELSE LET h == RefModPow(u, n \div 2, m)
             sq == (h * h) % m
         IN IF n % 2 = 1 THEN (sq * (u % m)) % m ELSE sq

ModexpBases == {MkNum(u, 0, ng) : u \in {0, 1, 2, 7, 250, 15555}, ng \in BOOLEAN}

ModexpExps == {MkNum(n, 0, FALSE) : n \in (0..MaxPow) \cup {100, 1000}}

Moduli == {MkNum(u, 0, ng) : u \in {1, 2, 7, 250, 10007}, ng \in BOOLEAN}

InitModexp ==
    \E x \in ModexpBases, y \in ModexpExps, z \in Moduli : ReadyWith(x, y, z, 0)

NextModexp == Modexp

SpecModexp == InitModexp /\ [][NextModexp]_vars

(***************************************************************************)
(* C13: for every integer a, every integer b >= 0 and every integer c that *)
(* is not zero, modexp returns success with d = a^b mod c, the number      *)
(* rem(pow(a, b), c) at scale 0, so that |d| < |c|, also for b = 0 and     *)
(* |c| = 1.                                                                *)
(***************************************************************************)
ModexpIsPowMod ==
    (pc = "done" /\ op = "modexp") =>
        /\ st = BC_STATUS_SUCCESS
        /\ d.scale = 0
        /\ Mag(d) = RefModPow(Mag(a), Mag(b), Mag(c))
        /\ d.neg = (a.neg /\ Mag(b) % 2 = 1 /\ Mag(d) # 0)
        /\ Mag(d) < Mag(c)

(***************************************************************************)
(* Printing a number and parsing the characters printed, in one base.      *)
(***************************************************************************)
PrintBases == 2..36

\* A line the numbers printed fit in, and one they have to be wrapped in.
LineLens == {BC_NUM_PRINT_WIDTH, 5}

InitRoundTrip ==
    \E x \in Nums, bs \in PrintBases, ll \in LineLens :
        ReadyAt(x, bc_num_init(0), bc_num_init(0), 0, bs, ll, FALSE)

NextRoundTrip ==
    \/ PrintOut
    \/ Parse

SpecRoundTrip == InitRoundTrip /\ [][NextRoundTrip]_vars

\* The cells of n above r cells of fraction, without the zero cells at the
\* top.
RECURSIVE StripTop(_)
StripTop(cells) ==
    IF cells = <<>> \/ cells[Len(cells)] # 0 THEN cells
    ELSE StripTop(SubSeq(cells, 1, Len(cells) - 1))

CellsAt(n, r) == StripTop(Zeros(r - n.rdx) \o Digits(n))

\* x and y have the same value, whatever their scales.
SameValue(x, y) ==
    LET r == BC_MAX(x.rdx, y.rdx)
    IN /\ CellsAt(x, r) = CellsAt(y, r)
       /\ (CellsAt(x, r) # <<>> => x.neg = y.neg)

\* n has no fraction: its cells below the radix are zero.
IsInteger(n) == \A i \in 1..BC_MIN(n.rdx, n.len) : n.num[i] = 0

\* The sink has started a new line within the characters it holds.
Wrapped == \E i \in 1..Len(vm.out) : vm.out[i] = CharBackslash

\* Parse has been run on the characters print emitted, and no other.
RoundTripDone == pc \in {"parsed", "aborted"} /\ op = "print"

(***************************************************************************)
(* C14: for every base from 2 to 36 and every n, parsing in that base the  *)
(* characters print emitted for n gives a number of the same value as n,   *)
(* and in base 10 of the same scale.                                       *)
(***************************************************************************)
ParseOfPrintIsSame ==
    RoundTripDone =>
        /\ pc = "parsed"
        /\ st = BC_STATUS_SUCCESS
        /\ SameValue(c, a)
        /\ (ibase = BC_BASE => c.scale = a.scale)

(***************************************************************************)
(* C14, amended: for every n that is not negative and that print emits on  *)
(* one line, parsing the characters gives a number of the same value as n  *)
(* in base 10, and in any other base up to 16 when n has no fraction; in   *)
(* base 10 the scale is the same too unless n is zero.                     *)
(***************************************************************************)
ParseOfPrintIsSameOnOneLine ==
    (/\ RoundTripDone
     /\ ~a.neg
     /\ ~Wrapped
     /\ \/ ibase = BC_BASE
        \/ ibase <= BC_NUM_MAX_POSIX_IBASE /\ IsInteger(a)) =>
        /\ pc = "parsed"
        /\ st = BC_STATUS_SUCCESS
        /\ SameValue(c, a)
        /\ (ibase = BC_BASE /\ BC_NUM_NONZERO(a) => c.scale = a.scale)

\* A number of several cells with a fraction has gone through base 10, and
\* one printed with letters has gone through base 16.
RoundTripWitness ==
    /\ RoundTripDone
    /\ pc = "parsed"
    /\ ~Wrapped
    /\ \/ ibase = BC_BASE /\ a.len > 2 /\ a.scale = MaxScale /\ SameNumber(c, a)
       \/ /\ ibase = BC_NUM_MAX_POSIX_IBASE
          /\ \E i \in 1..Len(vm.out) : isupper(vm.out[i])
          /\ SameValue(c, a)

(***************************************************************************)
(* Parsing one letter.                                                     *)
(***************************************************************************)
InitLetter ==
    \E bs \in PrintBases :
        ReadyAt(bc_num_init(0), bc_num_init(0), bc_num_init(0), 0, bs,
                BC_NUM_PRINT_WIDTH, FALSE)

NextLetter == ParseLetter

SpecLetter == InitLetter /\ [][NextLetter]_vars

\* The digit the letter ch stands for.
LetterDigit(ch) == ch - CharA + 10

\* Parse has been run with letter true on an upper-case letter.
LetterParsed == pc = "done" /\ op = "letter" /\ isupper(ret)

(***************************************************************************)
(* C15: parse with letter true reads the letter A..Z as the digit 10..35   *)
(* clamped to base - 1, so that the value parsed never exceeds base - 1    *)
(* for the base handed to parse.                                           *)
(***************************************************************************)
LetterClampedToBase ==
    LetterParsed =>
        /\ st = BC_STATUS_SUCCESS
        /\ c.scale = 0
        /\ ~c.neg
        /\ Mag(c) = BC_MIN(LetterDigit(ret), ibase - 1)
        /\ Mag(c) <= ibase - 1

(***************************************************************************)
(* C15, amended: parse with letter true reads the letter A..Z as the digit *)
(* 10..35 whatever the base handed to parse, so that the value parsed      *)
(* never exceeds 35.                                                       *)
(***************************************************************************)
LetterIsItsDigit ==
    LetterParsed =>
        /\ st = BC_STATUS_SUCCESS
        /\ c.scale = 0
        /\ ~c.neg
        /\ Mag(c) = LetterDigit(ret)
        /\ Mag(c) <= 35

\* Z has been parsed in base 16.
LetterWitness ==
    /\ LetterParsed
    /\ ret = CharA + 25
    /\ ibase = 16
    /\ Mag(c) = 35

(***************************************************************************)
(* Printing numbers in the bases print takes, on long and short lines.     *)
(***************************************************************************)
OutBases == {0, 1, 2, 8, BC_BASE, BC_NUM_MAX_POSIX_IBASE, 17, 36}

InitPrint ==
    \E x \in Nums, bs \in OutBases, ll \in LineLens :
        ReadyAt(x, bc_num_init(0), bc_num_init(0), 0, bs, ll, FALSE)

NextPrint == PrintOut

SpecPrint == InitPrint /\ [][NextPrint]_vars

\* The characters of str that are not a backslash or a newline: what was
\* printed, without the line breaks.
RECURSIVE Unwrapped(_)
Unwrapped(str) ==
    IF str = <<>> THEN <<>>
    ELSE IF Head(str) \in {CharBackslash, CharNewline} THEN Unwrapped(Tail(str))
    ELSE <<Head(str)>> \o Unwrapped(Tail(str))

\* The characters a printer puts on a line that is long enough.
OnOneLine(o) == Unwrapped(o.out)

\* The number a string of decimal digits stands for.
RECURSIVE DecValue(_)
DecValue(str) ==
    IF str = <<>> THEN 0
    ELSE DecValue(SubSeq(str, 1, Len(str) - 1)) * 10
         + (str[Len(str)] - CharZero)

\* The exponent printed after the e of str.
ExponentOf(str) ==
    LET p == CHOOSE i \in 1..Len(str) : str[i] = CharE
        rest == SubSeq(str, p + 1, Len(str))
    IN IF rest # <<>> /\ Head(rest) = CharMinus
       THEN 0 - DecValue(Tail(rest))
       ELSE DecValue(rest)

\* The number of decimal digits of m > 0.
RECURSIVE DecLen(_)
DecLen(m) == IF m < 10 THEN 1 ELSE 1 + DecLen(m \div 10)

\* The decimal exponent of n, not zero: the e with 10^e <= |n| < 10^(e + 1).
DecExponent(n) == DecLen(Mag(n)) - 1 - n.scale

\* The exponent of scientific notation, and the exponent of engineering
\* notation, the multiple of 3 at or below it.
Scientific(n) == DecExponent(n)

Engineering(n) == 3 * (DecExponent(n) \div 3)

\* print has returned.
Printed == pc = "done" /\ op \in {"print", "println"}

\* What print does for zero, for base 10 and for the bases from 2 on.
PrintDispatch ==
    /\ st = BC_STATUS_SUCCESS
    /\ BC_NUM_ZERO(a) => Unwrapped(vm.out) = <<CharZero>>
    /\ BC_NUM_NONZERO(a) /\ ibase = BC_BASE =>
           Unwrapped(vm.out) =
               OnOneLine(bc_num_printDecimal(Sink(BC_NUM_PRINT_WIDTH), a))
    /\ BC_NUM_NONZERO(a) /\ ibase > 1 /\ ibase # BC_BASE =>
           Unwrapped(vm.out) =
               OnOneLine(Call("bc_num_printBase", <<Sink(BC_NUM_PRINT_WIDTH), a,
                                          ibase>>).o)

(***************************************************************************)
(* C16: print of a number that is not zero in base 0 prints engineering    *)
(* notation, the exponent a multiple of 3, and in base 1 plain scientific  *)
(* notation; zero prints 0, base 10 prints as print_decimal does and every *)
(* other base as print_base does.                                          *)
(***************************************************************************)
BaseZeroIsEngineering ==
    Printed =>
        /\ PrintDispatch
        /\ BC_NUM_NONZERO(a) /\ ibase = 0 =>
               ExponentOf(Unwrapped(vm.out)) = Engineering(a)
        /\ BC_NUM_NONZERO(a) /\ ibase = 1 =>
               ExponentOf(Unwrapped(vm.out)) = Scientific(a)

(***************************************************************************)
(* C16, amended: print of a number that is not zero in base 1 prints       *)
(* engineering notation, the exponent a multiple of 3, and in base 0 plain *)
(* scientific notation; zero prints 0, base 10 prints as print_decimal     *)
(* does and every other base as print_base does.                           *)
(***************************************************************************)
BaseOneIsEngineering ==
    Printed =>
        /\ PrintDispatch
        /\ BC_NUM_NONZERO(a) /\ ibase = 1 =>
               ExponentOf(Unwrapped(vm.out)) = Engineering(a)
        /\ BC_NUM_NONZERO(a) /\ ibase = 0 =>
               ExponentOf(Unwrapped(vm.out)) = Scientific(a)

\* A number whose two notations differ has been printed in base 1.
ExponentWitness ==
    /\ Printed
    /\ ibase = 1
    /\ BC_NUM_NONZERO(a)
    /\ Engineering(a) # Scientific(a)
    /\ Engineering(a) < 0
    /\ ExponentOf(Unwrapped(vm.out)) = Engineering(a)

(***************************************************************************)
(* Printing one number after another to the same sink.                     *)
(***************************************************************************)
WrapNums ==
    {MkNum(u, s, ng) : u \in {0, 7, 1234, 123456789}, s \in {0, MaxScale},
                       ng \in BOOLEAN}

\* The shortest line holds two characters and its backslash.
WrapLens == LineLens \cup {3}

\* The numbers printed after the first.
WrapNext ==
    {MkNum(t[1], t[2], t[3]) :
        t \in {<<1234, 0, FALSE>>, <<123456789, MaxScale, TRUE>>}}

InitWrap ==
    \E x \in WrapNums, y \in WrapNext, bs \in OutBases, ll \in WrapLens :
        ReadyAt(x, y, bc_num_init(0), 0, bs, ll, FALSE)

\* The caller prints b next.
PrintAgain ==
    /\ pc = "done"
    /\ op \in {"print", "println"}
    /\ hops < MaxChain
    /\ pc' = "ready"
    /\ a' = b
    /\ hops' = hops + 1
    /\ UNCHANGED <<op, b, scale, c, d, st, ret, sig_received, ibase, vm,
                   karatsuba_len, frame>>

NextWrap ==
    \/ PrintOut
    \/ PrintAgain

SpecWrap == InitWrap /\ [][NextWrap]_vars

\* The lines of str, without their newlines; the last is the line being
\* written.
RECURSIVE SplitLines(_, _)
SplitLines(str, line) ==
    IF str = <<>> THEN <<line>>
    ELSE IF Head(str) = CharNewline THEN <<line>> \o SplitLines(Tail(str), <<>>)
    ELSE SplitLines(Tail(str), Append(line, Head(str)))

OutLines == SplitLines(vm.out, <<>>)

\* line ends with the backslash of a wrap.
Broken(line) == line # <<>> /\ line[Len(line)] = CharBackslash

(***************************************************************************)
(* C17: whatever print has written, a line that was wrapped holds          *)
(* line_len - 1 characters before its backslash, no other line holds more  *)
(* than line_len - 1 characters, the column counter is the length of the   *)
(* line being written, and the newline print ends with comes without a     *)
(* wrap of its own.                                                        *)
(***************************************************************************)
LinesAreWrapped ==
    /\ \A i \in 1..Len(OutLines) :
          IF i < Len(OutLines) /\ Broken(OutLines[i])
          THEN Len(OutLines[i]) - 1 = vm.line_len - 1
          ELSE /\ Len(OutLines[i]) <= vm.line_len - 1
               /\ \A j \in 1..Len(OutLines[i]) :
                     OutLines[i][j] # CharBackslash
    /\ vm.nchars = Len(OutLines[Len(OutLines)])
    /\ \A i \in 1..(Len(OutLines) - 1) : OutLines[i] # <<>>

\* A number has been printed after another, over several lines, and the
\* newline came on a line that was full.
WrapWitness ==
    /\ Printed
    /\ op = "println"
    /\ hops = MaxChain
    /\ Len(OutLines) > 3
    /\ Broken(OutLines[1])
    /\ Len(OutLines[Len(OutLines) - 1]) = vm.line_len - 1
    /\ ~Broken(OutLines[Len(OutLines) - 1])

(***************************************************************************)
(* The operations called with the signal flag set.                         *)
(***************************************************************************)
SigNums == {MkNum(u, s, ng) : u \in {0, 1, 2, 100, 1234},
                              s \in {0, 1}, ng \in BOOLEAN}

\* The output c holds a modulus when modexp is called.
InitSignal ==
    \E x, y \in SigNums, sc \in {0, MaxScale},
       bs \in {0, 1, 2, BC_BASE, BC_NUM_MAX_POSIX_IBASE} :
        ReadyAt(x, y, MkNum(7, 0, FALSE), sc, bs, BC_NUM_PRINT_WIDTH, TRUE)

NextSignal ==
    \/ Add
    \/ Sub
    \/ Mul
    \/ Div
    \/ Mod
    \/ Divmod
    \/ Pow
    \/ Sqrt
    \/ Modexp
    \/ ParseInput
    \/ ParseLetter
    \/ PrintOut

SpecSignal == InitSignal /\ [][NextSignal]_vars

\* An operation has returned from a call made with the flag set, on
\* operands it takes.
ReturnedUnderSignal ==
    /\ pc = "done"
    /\ sig_received
    /\ st \notin MathErrors

\* The operation has come back on a path that has no poll of the flag.
Shortcut ==
    \/ op \in {"add", "sub"} /\ (BC_NUM_ZERO(a) \/ BC_NUM_ZERO(b))
    \/ op = "div" /\ (BC_NUM_ZERO(a) \/ BC_NUM_ONE(b))
    \/ op \in {"mod", "divmod"} /\ BC_NUM_ZERO(a)
    \/ op = "pow" /\ \/ BC_NUM_ZERO(b)
                     \/ BC_NUM_ZERO(a)
                     \/ BC_NUM_ONE(b) /\ ~b.neg
                     \/ BC_NUM_ONE(b) /\ BC_NUM_ONE(a)
    \/ op = "sqrt" /\ (BC_NUM_ZERO(a) \/ BC_NUM_ONE(a))
    \/ op = "parse" /\ (ibase = BC_BASE \/ BC_NUM_ZERO(a))
    \/ op = "letter"
    \/ op \in {"print", "println"} /\ (ibase = BC_BASE \/ BC_NUM_ZERO(a))

Live(n) == n.num # <<>> /\ n.len <= Len(n.num)

\* The numbers the operation op writes.
Outputs ==
    IF op = "divmod" THEN {c, d}
    ELSE IF op = "modexp" THEN {d}
    ELSE IF op \in {"print", "println"} THEN {}
    ELSE {c}

Interrupted == pc = "done" /\ st = BC_STATUS_SIGNAL

BinaryOps == {"add", "sub", "mul", "div", "mod", "pow"}

\* The call of a public operation with a distinct output cc (init = FALSE),
\* or with the output being an operand (init = TRUE).
BinaryName(name) ==
    CASE name = "add" -> "bc_num_add"
      [] name = "sub" -> "bc_num_sub"
      [] name = "mul" -> "bc_num_mul"
      [] name = "div" -> "bc_num_div"
      [] name = "mod" -> "bc_num_mod"
      [] name = "pow" -> "bc_num_pow"

\* bc_num_add and bc_num_sub take the scale too, which they ignore; the
\* model's operators leave it out.
BinaryCall(name, x, y, cc, sc, init) ==
    Call(BinaryName(name),
         IF name \in {"add", "sub"} THEN <<x, y, cc, init>>
         ELSE <<x, y, cc, sc, init>>)

\* Which operand the output is: 1 for c == a, 2 for c == b, 3 for
\* c == a == b.
AliasModes == {1, 2, 3}

AliasNums == {MkNum(u, s, ng) : u \in {0, 1, 7, 100, 1234},
                                s \in {0, 1, MaxScale}, ng \in BOOLEAN}

InitAlias ==
    \E x, y \in AliasNums, sc \in {0, MaxScale} :
        ReadyWith(x, y, bc_num_init(BC_NUM_DEF_SIZE), sc)

\* op(a, b, a), op(a, b, b) or op(a, a, a).  bc_num_binary copies the struct
\* of the operand that c is into num2, gives c a new buffer, runs the
\* operation on the copy and frees num2; d is num2 after the call, and the
\* operand that c is reads as the result from then on.
ReturnInPlace(name, mode, num2, r) ==
    /\ pc' = "done"
    /\ op' = name
    /\ ret' = mode
    /\ c' = r.n
    /\ st' = r.s
    /\ a' = IF mode = 2 THEN a ELSE r.n
    /\ b' = IF mode = 1 THEN b ELSE r.n
    /\ d' = bc_num_free(num2)
    /\ UNCHANGED <<scale, hops, sig_received, ibase, vm, karatsuba_len, frame>>

InPlace ==
    /\ pc = "ready"
    /\ \E name \in BinaryOps, mode \in AliasModes :
        LET y == IF mode = 3 THEN a ELSE b
            num2 == IF mode = 2 THEN b ELSE a
        IN /\ name = "pow" => PowArg(y)
           /\ ReturnInPlace(name, mode, num2,
                            BinaryCall(name, a, y, num2, scale, TRUE))

NextAlias == InPlace

SpecAlias == InitAlias /\ [][NextAlias]_vars

\* The capacities a caller gives an output of its own: the default one, and
\* one above what any operation here asks for.
FreshCaps == {BC_NUM_DEF_SIZE, 3 * BC_NUM_DEF_SIZE}

\* The same call with the operands' values and an output of its own, just
\* initialised with capacity cap.
FreshCall(name, x, y, sc, cap) ==
    BinaryCall(name, x, y, bc_num_init(cap), sc, FALSE)

ReturnBigdig(r) ==
    /\ pc' = "done"
    /\ op' = "bigdig"
    /\ st' = r.s
    /\ ret' = r.v
    /\ UNCHANGED <<a, b, scale, c, d, hops, sig_received, ibase, vm,
                   karatsuba_len, frame>>

Bigdig ==
    /\ pc = "ready"
    /\ ReturnBigdig(bc_num_bigdig(a))

\* void bc_num_bigdig2num(BcNum *restrict n, BcBigDig val) on the BcBigDig
\* that bc_num_bigdig returned, into c, which holds a number of its own.
Bigdig2num ==
    /\ pc = "done"
    /\ op = "bigdig"
    /\ st = BC_STATUS_SUCCESS
    /\ pc' = "done"
    /\ op' = "bigdig2num"
    /\ c' = bc_num_bigdig2num(c, ret)
    /\ UNCHANGED <<a, b, scale, d, st, ret, hops, sig_received, ibase, vm,
                   karatsuba_len, frame>>

\* The values a BcBigDig can hold while bc_num_bigdig reads the cells above
\* the last one, each followed by every kind of last cell: the first value
\* whose product with BC_BASE_POW wraps around and its neighbours, values
\* whose product wraps around several times, and the largest value.
BigdigTops ==
    {0, 1, 99, 100, 654, 655, 656, 657, 1310, 1311, 9999, 32767, 32768,
     40000, 65534, 65535, 65536, 65537, 131071, 131072}

BigdigLasts == {0, 35, 36, 99}

\* The number with the integer part t[1] * BC_BASE_POW + t[2] and the
\* fraction t[3] / 10^t[4].
BigdigNum(t) ==
    MkNum((t[1] * BC_BASE_POW + t[2]) * bc_num_pow10(t[4]) + t[3], t[4],
          FALSE)

BigdigNums ==
    {BigdigNum(t) :
        t \in (BigdigTops \X BigdigLasts \X {0} \X {0})
                  \cup ({655, 65535} \X {35, 36} \X {9} \X {1})
                  \cup ({655, 65535} \X {35, 36} \X {99} \X {2})}

InitBigdig ==
    \E x \in BigdigNums :
       ReadyWith(x, bc_num_init(0), MkNum(15555, 2, TRUE), 0)

NextBigdig == Bigdig \/ Bigdig2num

SpecBigdig == InitBigdig /\ [][NextBigdig]_vars

\* The integer part of a number, from the value of its cells.
IntPart(n) == Mag(n) \div bc_num_pow10(n.scale)

(***************************************************************************)
(* C21: for every n that is not negative, bigdig returns success and the   *)
(* integer part of n exactly when that integer part is at most             *)
(* BC_NUM_BIGDIG_MAX, and the overflow error otherwise; and bigdig2num of  *)
(* the BcBigDig that bigdig returned for an integer n is n.                *)
(***************************************************************************)
BigdigIsIntegerPart ==
    /\ (pc = "done" /\ op \in {"bigdig", "bigdig2num"} /\ ~a.neg) =>
          IF IntPart(a) <= BC_NUM_BIGDIG_MAX
          THEN st = BC_STATUS_SUCCESS /\ ret = IntPart(a)
          ELSE st = BC_ERROR_MATH_OVERFLOW
    /\ (pc = "done" /\ op = "bigdig2num" /\ ~a.neg /\ a.scale = 0) =>
          SameNumber(c, a)

\* The largest BcBigDig, read from three cells and written back over a
\* negative number with a fraction.
BigdigWitness ==
    /\ pc = "done"
    /\ op = "bigdig2num"
    /\ a.scale = 0
    /\ a.len = 3
    /\ ret = BC_NUM_BIGDIG_MAX
    /\ c.len = 3
    /\ ~c.neg

(***************************************************************************)
(* The calls of bc_num_k under a threshold BC_NUM_KARATSUBA_LEN that the   *)
(* build chooses: a and b are the operands of the call of bc_num_k that is *)
(* running, hops counts the calls of bc_num_k it is nested in.             *)
(***************************************************************************)
\* The deepest nesting of bc_num_k that is followed.
MaxDepth == 3

\* The factors of the three products bc_num_k asks of bc_num_m: h1 * h2,
\* l1 * l2 and m1 * m2 with m1 = h1 - l1 and m2 = l2 - h2, for the splits
\* sx = [a |-> l1, b |-> h1] and sy = [a |-> l2, b |-> h2].
KaratsubaFactors(sx, sy, tmp) ==
    {<<sx.b, sy.b>>, <<sx.a, sy.a>>,
     [i \in 1..2 |->
         Call("bc_num_sub", <<IF i = 1 THEN sx.b ELSE sy.a,
                              IF i = 1 THEN sx.a ELSE sy.b, tmp,
                              FALSE>>).n]}

\* bc_num_k multiplies the factors t when neither is zero, and bc_num_m
\* hands them on to bc_num_k unless one is an integer of a single cell.
KaratsubaNested(t) ==
    /\ BC_NUM_NONZERO(t[1])
    /\ BC_NUM_NONZERO(t[2])
    /\ ~((t[1].len = 1 \/ t[2].len = 1) /\ t[1].rdx = 0 /\ t[2].rdx = 0)

\* The operands bc_num_m hands bc_num_k for the factors sl[1] and sl[2],
\* after its shifts of their copies to the left.
MulOperands(sl) ==
    <<bc_num_shiftZero(bc_num_clean(sl[1].n)).n,
      bc_num_clean(bc_num_shiftZero(sl[2].n).n)>>

\* The copies bc_num_m makes of the factors t, shifted left by their rdx.
MulShifted(t) ==
    [i \in 1..2 |->
        Call("bc_num_shiftLeft",
             <<MulCopy(t[i]), t[i].rdx * BC_BASE_DIGS>>)]

\* The operands of the calls of bc_num_k that one call of bc_num_k makes
\* through bc_num_m, from the splits sx and sy of its operands.
KaratsubaSplitCalls(sx, sy, tmp) ==
    {MulOperands(MulShifted(t)) :
        t \in {f \in KaratsubaFactors(sx, sy, tmp) : KaratsubaNested(f)}}

\* The same for operands long enough to be split, at (max + 1) / 2 cells.
KaratsubaCallsAt(x, y, max, tmp) ==
    KaratsubaSplitCalls(bc_num_split(x, (max + 1) \div 2, tmp, tmp),
                        bc_num_split(y, (max + 1) \div 2, tmp, tmp), tmp)

\* The operands of the calls of bc_num_k that bc_num_k on x and y makes
\* through bc_num_m.
KaratsubaCalls(x, y) ==
    IF \/ BC_SIG
       \/ BC_NUM_ZERO(x) \/ BC_NUM_ZERO(y)
       \/ BC_NUM_ONE(x) \/ BC_NUM_ONE(y)
       \/ x.len < karatsuba_len \/ y.len < karatsuba_len
    THEN {}
    ELSE KaratsubaCallsAt(x, y,
                          BC_MAX(BC_MAX(x.len, y.len), BC_NUM_DEF_SIZE),
                          bc_num_setup(Fill(BC_MAX(BC_MAX(x.len, y.len),
                                                   BC_NUM_DEF_SIZE), Junk)))

\* The call of bc_num_k that is running calls bc_num_m, which calls
\* bc_num_k.
KaratsubaNest ==
    /\ pc = "ready"
    /\ hops < MaxDepth
    /\ \E t \in KaratsubaCalls(a, b) :
          /\ a' = t[1]
          /\ b' = t[2]
    /\ hops' = hops + 1
    /\ UNCHANGED <<pc, op, scale, c, d, st, ret, sig_received, ibase, vm,
                   karatsuba_len, frame>>

\* A call of bc_num_k that makes no call of bc_num_k returns.
KaratsubaLeaf ==
    /\ pc = "ready"
    /\ KaratsubaCalls(a, b) = {}
    /\ Return("k", Call("bc_num_k",
                        <<a, b, bc_num_setToZero(bc_num_init(BC_NUM_DEF_SIZE),
                                                 0)>>))

\* The number of k cells whose decimal digits are all dg.
CellsNum(k, dg) ==
    Call("bc_num_parse",
         <<bc_num_init(BC_NUM_DEF_SIZE),
           Fill(k * BC_BASE_DIGS, CharZero + dg), BC_BASE, FALSE>>).n

KaratsubaNums == {CellsNum(t[1], t[2]) : t \in {2, 3, 9, 17} \X {3, 7}}

\* The thresholds a build may choose.
Thresholds == {2, 3, 8, 9, BC_NUM_KARATSUBA_LEN}

InitKaratsuba ==
    \E x, y \in KaratsubaNums, k \in Thresholds :
       /\ pc = "ready"
       /\ op = "mul"
       /\ a = x
       /\ b = y
       /\ scale = 0
       /\ c = bc_num_init(0)
       /\ d = bc_num_init(0)
       /\ st = BC_STATUS_SUCCESS
       /\ ret = 0
       /\ hops = 0
       /\ sig_received = FALSE
       /\ ibase = BC_BASE
       /\ vm = Sink(BC_NUM_PRINT_WIDTH)
       /\ karatsuba_len = k
       /\ frame = NoFrame

NextKaratsuba == KaratsubaNest \/ KaratsubaLeaf

SpecKaratsuba == InitKaratsuba /\ [][NextKaratsuba]_vars

(***************************************************************************)
(* C22: whatever the threshold, bc_num_k on integers that are not negative *)
(* comes to an end: no call of bc_num_k makes, through bc_num_m, a call of *)
(* bc_num_k on its own operands.                                           *)
(***************************************************************************)
KaratsubaDescends ==
    [][hops' = hops + 1 =>
          ~(Digits(a') = Digits(a) /\ Digits(b') = Digits(b))]_vars

\* The operands of sqrt: integers and fractions that are not negative, up
\* to those that take several cells on both sides of the radix.  For
\* a = 24999999 at the scale 0, a * 10^8 + 1 is the square of 49999999: the
\* iteration at 4 decimal places goes back and forth between 4999.9998 and
\* 4999.9999.
NewtonNums ==
    {MkNum(t[1], t[2], FALSE) :
        t \in (SqrtVals \cup {3, 5, 8, 24, 120, 65535, 24999999, 25000001,
                              1999999999})
                 \X Scales}

InitNewton ==
    \E x \in NewtonNums, sc \in Scales :
        Ready(x, bc_num_init(BC_NUM_DEF_SIZE), sc)

NextNewton == SqrtShort \/ SqrtEnter \/ SqrtIterate \/ SqrtLeave

\* The calculator runs one thread: a call that can take a step takes it.
SpecNewton == InitNewton /\ [][NextNewton]_vars /\ WF_vars(NextNewton)

(***************************************************************************)
(* C23: with the signal flag never set, the loop of bc_num_sqrt comes to   *)
(* an end for every a that is not negative and every scale: the loop is    *)
(* never still to go on after MaxTurns turns, so that sqrt returns.        *)
(***************************************************************************)
SqrtLoopEnds ==
    pc = "sqrt" =>
        \/ frame.turns < MaxTurns
        \/ ~SqrtGoesOn(frame.locals.v, frame.locals.len)

\* sqrt of 24999999 at the scale 0 has returned 4999, after a loop in which
\* three turns in a row repeated the comparison and the digits of two turns
\* before and resscale was raised.
SqrtLoopWitness ==
    /\ pc = "done"
    /\ op = "sqrt"
    /\ st = BC_STATUS_SUCCESS
    /\ scale = 0
    /\ Digits(a) = <<99, 99, 99, 24>>
    /\ a.scale = 0
    /\ Digits(c) = <<99, 49>>
    /\ frame # NoFrame
    /\ frame.turns > 3
    /\ frame.locals.v.resscale > (frame.locals.scl + BC_BASE_DIGS) * 2

(***************************************************************************)
(* Division with the signal raised while it runs.  frame holds the call of *)
(* bc_num_d: the locals dl of bc_num_d_long, the call leaf of a digit      *)
(* array function that bc_num_d or bc_num_d_long is waiting for, whether a *)
(* loop has left early on the flag, and the result full that the call      *)
(* gives when no signal arrives.  Every step reads the flag at most once,  *)
(* and the flag may be raised between any two steps.                       *)
(***************************************************************************)
\* A call of a digit array function about to test its loop for the first
\* time: x + xo is the array it writes (or the first array it compares),
\* y + yo the array it reads, bd the BcBigDig argument and n the number
\* whose buffer x is, its len being the end of the cells in use above xo.
LeafCall(fn, x, xo, y, yo, len, bd, n) ==
    [fn |-> fn, pos |-> "loop", x |-> x, xo |-> xo, y |-> y, yo |-> yo,
     len |-> len, bd |-> bd, n |-> n,
     i |-> IF fn \in {"bc_num_divArray", "bc_num_compare"} THEN len - 1
           ELSE 0,
     j |-> 0, carry |-> 0, s |-> BC_STATUS_SUCCESS, r |-> 0,
     early |-> FALSE]

\* A value that stands where a call would have returned it.
LeafValue(r) ==
    [LeafCall("none", <<>>, 0, <<>>, 0, 0, 0, <<>>)
        EXCEPT !.pos = "returned", !.r = r]

\* A digit array function that returns success whatever the flag.
ArrayStatus_success(sig) == BC_STATUS_SUCCESS

\* The status a digit array function returns, from the flag as it reads it
\* last.
ArrayStatus(sig) == IF sig THEN BC_STATUS_SIGNAL ELSE BC_STATUS_SUCCESS

\* The loop left at a test in which the flag was up and the rest of the
\* condition held.
LeftEarly(f, pos, sig, more) ==
    [f EXCEPT !.pos = pos, !.early = @ \/ (sig /\ more)]

\* bc_num_addArrays from one read of the flag to the next.
AddArraysPoll(f, sig) ==
    LET k == f.xo + f.i + 1
    IN IF f.pos = "loop"
       THEN IF ~sig /\ f.i < f.len
            THEN LET in == f.x[k] + f.y[f.yo + f.i + 1] + f.carry
                 IN [f EXCEPT !.x[k] = in % BC_BASE_POW,
                              !.carry = in \div BC_BASE_POW, !.i = @ + 1]
            ELSE LeftEarly(f, "carry", sig, f.i < f.len)
       ELSE IF f.pos = "carry"
       THEN IF ~sig /\ f.carry # 0
            THEN LET in == f.x[k] + f.carry
                 IN [f EXCEPT !.x[k] = in % BC_BASE_POW,
                              !.carry = in \div BC_BASE_POW, !.i = @ + 1]
            ELSE LeftEarly(f, "return", sig, f.carry # 0)
       ELSE [f EXCEPT !.pos = "returned", !.s = ArrayStatus(sig)]

\* bc_num_subArrays from one read of the flag to the next.
SubArraysPoll(f, sig) ==
    LET k == f.xo + f.i + 1
    IN IF f.pos = "loop"
       THEN IF ~sig /\ f.i < f.len
            THEN [f EXCEPT !.x[k] = @ - f.y[f.yo + f.i + 1], !.j = 0,
                           !.pos = "borrow"]
            ELSE LeftEarly(f, "return", sig, f.i < f.len)
       ELSE IF f.pos = "borrow"
       THEN IF ~sig /\ f.x[k + f.j] < 0
            THEN [f EXCEPT !.x[k + f.j] = @ + BC_BASE_POW,
                           !.x[k + f.j + 1] = @ - 1, !.j = @ + 1]
            ELSE [LeftEarly(f, "loop", sig, f.x[k + f.j] < 0)
                     EXCEPT !.i = @ + 1]
       ELSE [f EXCEPT !.pos = "returned", !.s = ArrayStatus(sig)]

\* bc_num_mulArray from one read of the flag to the next, after it has
\* expanded and zeroed c.
MulArrayPoll(f, sig) ==
    IF f.pos = "loop"
    THEN IF ~sig /\ f.i < f.len
         THEN LET in == f.y[f.i + 1] * f.bd + f.carry
              IN [f EXCEPT !.x[f.i + 1] = in % BC_BASE_POW,
                           !.carry = in \div BC_BASE_POW, !.i = @ + 1]
         ELSE LeftEarly(f, "carry", sig, f.i < f.len)
    ELSE IF f.pos = "carry"
    THEN IF ~sig
         THEN [f EXCEPT !.x[f.i + 1] = f.carry,
                        !.n.len = f.len + (IF f.carry # 0 THEN 1 ELSE 0),
                        !.pos = "return"]
         ELSE [f EXCEPT !.pos = "return"]
    ELSE [f EXCEPT !.pos = "returned", !.s = ArrayStatus(sig),
                   !.n.num = f.x]

\* bc_num_divArray from one read of the flag to the next.
DivArrayPoll(f, sig) ==
    IF f.pos = "loop"
    THEN IF ~sig /\ f.i >= 0
         THEN LET in == f.y[f.i + 1] + f.carry * BC_BASE_POW
              IN [f EXCEPT !.x[f.i + 1] = in \div f.bd,
                           !.carry = in % f.bd, !.i = @ - 1]
         ELSE LeftEarly(f, "return", sig, f.i >= 0)
    ELSE [f EXCEPT !.pos = "returned", !.s = ArrayStatus(sig),
                   !.r = f.carry,
                   !.n = bc_num_clean([f.n EXCEPT !.num = f.x,
                                                  !.len = f.len])]

\* bc_num_compare from one read of the flag to the next; carry is its c.
ComparePoll(f, sig) ==
    IF f.pos = "loop"
    THEN IF ~sig /\ f.i >= 0
         THEN LET df == f.x[f.xo + f.i + 1] - f.y[f.yo + f.i + 1]
              IN IF df = 0 THEN [f EXCEPT !.carry = 0, !.i = @ - 1]
                 ELSE [f EXCEPT !.carry = df, !.pos = "return"]
         ELSE LeftEarly(f, "return", sig, f.i >= 0)
    ELSE [f EXCEPT !.pos = "returned",
                   !.r = IF sig THEN BC_NUM_CMP_SIGNAL
                         ELSE bc_num_neg(f.i + 1, f.carry < 0)]

LeafPoll(f, sig) ==
    CASE f.fn = "bc_num_addArrays" -> AddArraysPoll(f, sig)
      [] f.fn = "bc_num_subArrays" -> SubArraysPoll(f, sig)
      [] f.fn = "bc_num_mulArray" -> MulArrayPoll(f, sig)
      [] f.fn = "bc_num_divArray" -> DivArrayPoll(f, sig)
      [] f.fn = "bc_num_compare" -> ComparePoll(f, sig)

\* The call bc_num_mulArray(x, bd, cc), up to its loop.
MulArrayCall(x, bd, cc) ==
    LET e == IF x.len + 1 > Len(cc.num) THEN bc_num_expand(cc, x.len + 1)
             ELSE cc
    IN LeafCall("bc_num_mulArray", Zeros(Len(e.num)), 0, x.num, 0, x.len,
                bd, e)

\* bc_num_d_long goes on at pos once the call lf has returned.
Await(fr, pos, lf) == [fr EXCEPT !.dl.pos = pos, !.leaf = lf]

\* bc_num_d_long goes on at pos with no call to wait for; the call that
\* returned is taken into account.
Goto(fr, pos) ==
    [fr EXCEPT !.dl.pos = pos, !.leaf = NoFrame,
               !.early = @ \/ (fr.leaf # NoFrame /\ fr.leaf.early)]

\* bc_num_divCmp(n, y, len) on the window n = a->num + i.
DivCmpCall(fr, y, pos) ==
    LET v == fr.dl
    IN IF y.len > v.len /\ v.a[v.i + v.len + 1] # 0
       THEN Await(fr, pos, LeafCall("bc_num_compare", v.a, v.i, y.num, 0,
                                    v.len + 1, 0, y))
       ELSE IF y.len <= v.len
       THEN IF v.a[v.i + v.len + 1] # 0 THEN Await(fr, pos, LeafValue(1))
            ELSE Await(fr, pos, LeafCall("bc_num_compare", v.a, v.i, y.num,
                                         0, v.len, 0, y))
       ELSE Await(fr, pos, LeafValue(0 - 1))

\* bc_num_subArrays(cpb.num, sub.num, sub.len)
TakeSubCall(fr, pos) ==
    Await(fr, pos, LeafCall("bc_num_subArrays", fr.dl.cpb.num, 0,
                            fr.dl.sub.num, 0, fr.dl.sub.len, 0, fr.dl.cpb))

\* The guess of q and pow from the two top cells of the window, and the
\* call bc_num_mulArray(b, q, &cpb).
EstimateCall(fr) ==
    LET v == fr.dl
        dividend == v.a[v.i + v.len + 1] * BC_BASE_POW + v.a[v.i + v.len]
        q0 == dividend \div v.divisor + 1
        q == IF q0 > BC_BASE_POW THEN BC_BASE_POW ELSE q0
    IN Await([fr EXCEPT !.dl.q = q,
                        !.dl.pow = bc_num_pow10(bc_num_log10(q) - 1)],
             "mul_q", MulArrayCall(v.y, q, v.cpb))

\* bc_num_d_long from one read of the flag, or one return of a call, to the
\* next read or call.
DLongStep(fr, sig) ==
    LET v == fr.dl
        lf == fr.leaf
        on == Goto(fr, v.pos)
        go == ~sig /\ v.s = BC_STATUS_SUCCESS
    IN CASE v.pos = "for" ->
              IF go /\ v.i >= 0 /\ v.i >= v.rdx
              THEN DivCmpCall([fr EXCEPT !.dl.q = 0], v.y, "cmp")
              ELSE [Goto(fr, "err") EXCEPT
                       !.early = @ \/ (sig /\ v.s = BC_STATUS_SUCCESS
                                           /\ v.i >= 0 /\ v.i >= v.rdx)]
         [] v.pos = "cmp" ->
              IF lf.r = BC_NUM_CMP_SIGNAL THEN Goto(fr, "err")
              ELSE IF lf.r = 0
              THEN Await([on EXCEPT !.dl.q = 1], "mul_eq",
                         MulArrayCall(v.y, 1, v.cpb))
              ELSE IF lf.r > 0 THEN EstimateCall(on)
              ELSE Goto(fr, "store")
         [] v.pos = "mul_eq" ->
              IF lf.s # BC_STATUS_SUCCESS
              THEN [Goto(fr, "err") EXCEPT !.dl.s = lf.s, !.dl.cpb = lf.n]
              ELSE [Goto(fr, "take") EXCEPT !.dl.cpb = lf.n]
         [] v.pos = "mul_q" ->
              IF lf.s # BC_STATUS_SUCCESS
              THEN [Goto(fr, "err") EXCEPT !.dl.s = lf.s, !.dl.cpb = lf.n]
              ELSE Await([on EXCEPT !.dl.cpb = lf.n], "mul_pow",
                         MulArrayCall(v.y, v.pow, v.sub))
         [] v.pos = "mul_pow" ->
              IF lf.s # BC_STATUS_SUCCESS
              THEN [Goto(fr, "err") EXCEPT !.dl.s = lf.s, !.dl.sub = lf.n]
              ELSE [Goto(fr, "while") EXCEPT !.dl.sub = lf.n,
                                             !.dl.cpblen = v.cpb.len]
         [] v.pos = "while" ->
              IF go /\ v.pow > 0 THEN TakeSubCall(fr, "sub")
              ELSE [Goto(fr, "take") EXCEPT
                       !.dl.q = @ - 1,
                       !.early = @ \/ (sig /\ v.s = BC_STATUS_SUCCESS
                                           /\ v.pow > 0)]
         [] v.pos = "sub" ->
              IF lf.s # BC_STATUS_SUCCESS
              THEN [Goto(fr, "err") EXCEPT !.dl.s = lf.s,
                                           !.dl.cpb.num = lf.x]
              ELSE DivCmpCall([on EXCEPT
                                  !.dl.cpb = bc_num_clean(
                                      [v.cpb EXCEPT !.num = lf.x])],
                              bc_num_clean([v.cpb EXCEPT !.num = lf.x]),
                              "cmp_cpb")
         [] v.pos = "cmp_cpb" ->
              IF lf.r = BC_NUM_CMP_SIGNAL THEN Goto(fr, "err")
              ELSE [Goto(fr, "lower") EXCEPT !.dl.cmp = lf.r]
         [] v.pos = "lower" ->
              IF go /\ v.cmp < 0
              THEN TakeSubCall([fr EXCEPT !.dl.q = @ - v.pow], "sub")
              ELSE LET e == [fr EXCEPT
                                !.dl.pow = @ \div BC_BASE,
                                !.early = @ \/ (sig /\ v.cmp < 0
                                          /\ v.s = BC_STATUS_SUCCESS)]
                   IN IF v.pow \div BC_BASE # 0
                      THEN Await(e, "add",
                                 LeafCall("bc_num_addArrays", v.cpb.num, 0,
                                          v.sub.num, 0, v.sub.len, 0,
                                          v.cpb))
                      ELSE Goto(e, "while")
         [] v.pos = "add" ->
              IF lf.s # BC_STATUS_SUCCESS
              THEN [Goto(fr, "err") EXCEPT !.dl.s = lf.s,
                                           !.dl.cpb.num = lf.x]
              ELSE LET temp == bc_num_copy(v.temp, v.sub)
                   IN Await([on EXCEPT
                                !.dl.cpb = bc_num_clean(
                                    [v.cpb EXCEPT !.num = lf.x,
                                                  !.len = v.cpblen]),
                                !.dl.temp = temp],
                            "div",
                            LeafCall("bc_num_divArray", v.sub.num, 0,
                                     temp.num, 0, temp.len, 10, v.sub))
         [] v.pos = "div" ->
              IF lf.s # BC_STATUS_SUCCESS
              THEN [Goto(fr, "err") EXCEPT !.dl.s = lf.s, !.dl.sub = lf.n]
              ELSE [Goto(fr, "while") EXCEPT !.dl.sub = lf.n]
         [] v.pos = "take" ->
              IF v.q # 0
              THEN Await(fr, "taken",
                         LeafCall("bc_num_subArrays", v.a, v.i, v.cpb.num,
                                  0, v.len, 0,
                                  [bc_num_setup(v.a) EXCEPT
                                      !.len = v.i + v.len + 1]))
              ELSE Goto(fr, "store")
         [] v.pos = "taken" ->
              IF lf.s # BC_STATUS_SUCCESS
              THEN [Goto(fr, "err") EXCEPT !.dl.s = lf.s, !.dl.a = lf.x]
              ELSE [Goto(fr, "store") EXCEPT !.dl.a = lf.x]
         [] v.pos = "store" ->
              [Goto(fr, "for") EXCEPT
                  !.dl.c.num = Store(@, v.i, <<v.q>>), !.dl.i = @ - 1]
         [] v.pos = "err" ->
              [Goto(fr, "returned") EXCEPT
                  !.dl.s = IF v.s = BC_STATUS_SUCCESS /\ sig
                           THEN BC_STATUS_SIGNAL ELSE v.s]

\* The locals of bc_num_d_long(x, y, cc, sc) before its loop.
DLongLocals(x, y, c0, tmp, sc) ==
    [pos |-> "for", s |-> BC_STATUS_SUCCESS, end |-> x.len - y.len,
     i |-> x.len - y.len - 1, q |-> 0, pow |-> 0, cmp |-> 0, a |-> x.num, c |-> c0, cpb |-> tmp,
     sub |-> tmp, temp |-> tmp, cpblen |-> 0, y |-> y, len |-> y.len,
     rdx |-> c0.rdx - BC_NUM_RDX(sc), divisor |-> y.num[y.len]]

DLongEnter(x, y, cc, sc) ==
    DLongLocals(x, y,
                DLongOutput(x, bc_num_expand(cc, x.len), x.len - y.len),
                bc_num_init(y.len + 1), sc)

\* bc_num_d(x, y, cc, sc) takes the single-cell path.
DivBySingleCell(x, y, sc) ==
    x.rdx = 0 /\ y.rdx = 0 /\ y.len = 1 /\ sc = 0

\* bc_num_d(x, y, cc, sc) returns without a call of a digit array function.
DivIsShort(x, y) ==
    BC_NUM_ZERO(y) \/ BC_NUM_ZERO(x) \/ BC_NUM_ONE(y)

\* The call of bc_num_d made by bc_num_div(x, y, cc, sc), up to its first
\* read of the flag.
DivFrame(x, y, cc, sc) ==
    [dl |-> IF DivBySingleCell(x, y, sc) THEN [pos |-> "single"]
            ELSE DLongEnter(DivPadded(DivScaled(DivDividend(x, y, sc), y,
                                                sc)),
                            DivDivisor(y), cc, sc),
     leaf |-> IF DivBySingleCell(x, y, sc)
              THEN LeafCall("bc_num_divArray", cc.num, 0, x.num, 0, x.len,
                            y.num[1], cc)
              ELSE NoFrame,
     early |-> FALSE,
     full |-> Call("bc_num_d", <<x, y, cc, sc>>)]

\* Division that returns before any loop.
AsyncShort ==
    /\ pc = "ready"
    /\ DivIsShort(a, b)
    /\ Return("div", Call("bc_num_div", <<a, b, c, scale, FALSE>>))

\* bc_num_div up to the first read of the flag in bc_num_d.
AsyncEnter ==
    /\ pc = "ready"
    /\ ~DivIsShort(a, b)
    /\ ~sig_received
    /\ pc' = "div"
    /\ frame' = DivFrame(a, b, bc_num_expand(c, bc_num_mulReq(a, b, scale)),
                         scale)
    /\ UNCHANGED <<op, a, b, scale, c, d, st, ret, hops, sig_received,
                   ibase, vm, karatsuba_len>>

\* The signal arrives: the handler sets the flag, and nothing clears it
\* while the operation runs.
AsyncRaise ==
    /\ pc = "div"
    /\ ~sig_received
    /\ sig_received' = TRUE
    /\ UNCHANGED <<pc, op, a, b, scale, c, d, st, ret, hops, ibase, vm,
                   karatsuba_len, frame>>

\* The digit array function that is running goes on to its next read of
\* the flag.
AsyncPoll ==
    /\ pc \in {"div", "sub", "k"}
    /\ frame.leaf # NoFrame
    /\ frame.leaf.pos # "returned"
    /\ frame' = [frame EXCEPT !.leaf = LeafPoll(@, sig_received)]
    /\ UNCHANGED <<pc, op, a, b, scale, c, d, st, ret, hops, sig_received,
                   ibase, vm, karatsuba_len>>

\* bc_num_d_long goes on to its next read of the flag or its next call.
AsyncStep ==
    /\ pc = "div"
    /\ frame.dl.pos \notin {"single", "returned"}
    /\ frame.leaf # NoFrame => frame.leaf.pos = "returned"
    /\ frame' = DLongStep(frame, sig_received)
    /\ UNCHANGED <<pc, op, a, b, scale, c, d, st, ret, hops, sig_received,
                   ibase, vm, karatsuba_len>>

\* What bc_num_d returns once bc_num_divArray or bc_num_d_long has
\* returned.
DivLeave(fr, sc, xneg, yneg) ==
    IF fr.dl.pos = "single"
    THEN [s |-> fr.leaf.s,
          n |-> Call("bc_num_retireMul", <<fr.leaf.n, sc, xneg, yneg>>)]
    ELSE DivRetire([s |-> fr.dl.s, n |-> fr.dl.c], sc, xneg, yneg)

\* bc_num_d and bc_num_div return.
AsyncLeave ==
    /\ pc = "div"
    /\ \/ frame.dl.pos = "returned"
       \/ frame.dl.pos = "single" /\ frame.leaf.pos = "returned"
    /\ pc' = "done"
    /\ op' = "div"
    /\ c' = DivLeave(frame, scale, a.neg, b.neg).n
    /\ st' = DivLeave(frame, scale, a.neg, b.neg).s
    /\ frame' = [frame EXCEPT
                    !.early = @ \/ (frame.leaf # NoFrame /\ frame.leaf.early)]
    /\ UNCHANGED <<a, b, scale, d, ret, hops, sig_received, ibase, vm,
                   karatsuba_len>>

\* Dividends and divisors of one to three cells, with and without a
\* fraction, among them quotient cells that the refinement lowers.
AsyncDividends ==
    {MkNum(t[1], t[2], FALSE) :
        t \in {0, 7, 1234, 9999, 123456, 999999} \X {0, 1}}

AsyncDivisors ==
    {MkNum(0, 0, FALSE), MkNum(1, 0, FALSE), MkNum(7, 0, TRUE),
     MkNum(13, 0, FALSE), MkNum(99, 1, FALSE), MkNum(101, 0, FALSE),
     MkNum(1234, 2, FALSE), MkNum(9999, 0, FALSE)}

InitAsync ==
    \E x \in AsyncDividends, y \in AsyncDivisors, sc \in {0, MaxScale} :
        Ready(x, y, sc)

NextAsync ==
    AsyncShort \/ AsyncEnter \/ AsyncRaise \/ AsyncPoll \/ AsyncStep
        \/ AsyncLeave

SpecAsync == InitAsync /\ [][NextAsync]_vars

(***************************************************************************)
(* C24: with the flag raised at any point of a division and not cleared,   *)
(* a loop that saw the flag and left early makes the division return       *)
(* BC_STATUS_SIGNAL; a division that returns BC_STATUS_SUCCESS has run     *)
(* every loop to its end and its c is the whole quotient.                  *)
(***************************************************************************)
SeenSignalIsReturned ==
    (pc = "done" /\ op = "div" /\ frame # NoFrame) =>
        /\ frame.early => st = BC_STATUS_SIGNAL
        /\ st = BC_STATUS_SUCCESS =>
              ~frame.early /\ c = frame.full.n

\* The flag went up inside bc_num_d_long after cells of the quotient had
\* been stored, a loop left early and the division returned the signal.
SeenSignalWitness ==
    /\ pc = "done"
    /\ op = "div"
    /\ frame # NoFrame
    /\ frame.early
    /\ st = BC_STATUS_SIGNAL
    /\ frame.dl.pos = "returned"
    /\ frame.dl.i < frame.dl.end - 1
    /\ frame.dl.c # frame.full.n

(***************************************************************************)
(* The calls of bc_num_subArrays: by bc_num_s, by bc_num_k for z1 and by   *)
(* bc_num_d_long, each followed one loop test at a time.                   *)
(***************************************************************************)
\* bc_num_s with the minuend and the subtrahend the wrong way round.
SubCall_swapped(x, y, cc, sub, cmp) ==
    LET k == bc_num_copy(cc, IF cmp > 0 THEN y ELSE x)
        subtrahend == IF cmp > 0 THEN x ELSE y
        e == IF k.scale < subtrahend.scale
             THEN bc_num_extend(k, subtrahend.scale - k.scale) ELSE k
        start == IF k.scale < subtrahend.scale THEN 0
                 ELSE k.rdx - subtrahend.rdx
    IN LeafCall("bc_num_subArrays", e.num, start, subtrahend.num, 0,
                subtrahend.len, 0, e)

\* The call of bc_num_subArrays that bc_num_s makes for operands whose
\* magnitudes compare as cmp, which is not zero.
SubCall(x, y, cc, sub, cmp) ==
    LET k == IF cmp > 0 THEN [bc_num_copy(cc, x) EXCEPT !.neg = x.neg]
             ELSE [bc_num_copy(cc, y) EXCEPT
                      !.neg = IF sub # 0 THEN ~y.neg ELSE y.neg]
        subtrahend == IF cmp > 0 THEN y ELSE x
        e == IF k.scale < subtrahend.scale
             THEN bc_num_extend(k, subtrahend.scale - k.scale) ELSE k
        start == IF k.scale < subtrahend.scale THEN 0
                 ELSE k.rdx - subtrahend.rdx
    IN LeafCall("bc_num_subArrays", e.num, start, subtrahend.num, 0,
                subtrahend.len, 0, e)

\* bc_num_sub(x, y) comes to the call of bc_num_subArrays in bc_num_s.
SubBorrows(x, y) ==
    /\ x.neg = y.neg
    /\ BC_NUM_NONZERO(x)
    /\ BC_NUM_NONZERO(y)
    /\ bc_num_cmp([x EXCEPT !.neg = FALSE], [y EXCEPT !.neg = FALSE]) # 0

\* bc_num_sub that returns without a call of bc_num_subArrays.
SubShort ==
    /\ pc = "ready"
    /\ ~SubBorrows(a, b)
    /\ Return("sub", Call("bc_num_sub", <<a, b, c, FALSE>>))

\* bc_num_sub up to the call of bc_num_subArrays in bc_num_s.
SubEnter ==
    /\ pc = "ready"
    /\ SubBorrows(a, b)
    /\ pc' = "sub"
    /\ frame' = [dl |-> [pos |-> "s"],
                 leaf |-> SubCall(a, b,
                                  bc_num_expand(c, bc_num_addReq(a, b)), 1,
                                  bc_num_cmp([a EXCEPT !.neg = FALSE],
                                             [b EXCEPT !.neg = FALSE])),
                 early |-> FALSE,
                 full |-> Call("bc_num_sub", <<a, b, c, FALSE>>)]
    /\ UNCHANGED <<op, a, b, scale, c, d, st, ret, hops, sig_received,
                   ibase, vm, karatsuba_len>>

\* bc_num_s cleans c and returns.
SubLeave ==
    /\ pc = "sub"
    /\ frame.leaf.pos = "returned"
    /\ Return("sub", [s |-> frame.leaf.s,
                      n |-> bc_num_clean([frame.leaf.n EXCEPT
                                             !.num = frame.leaf.x])])

\* bc_num_k on the halves of its operands up to its last product: the
\* result r with z2 and z0 added in, and the product pr of m1 and m2.
KaratsubaLast(c0, l1, h1, l2, h2, m1, m2, max, max2) ==
    [r |-> KaratsubaTerm(
               KaratsubaTerm([s |-> BC_STATUS_SUCCESS, n |-> c0],
                             h1, h2, max + 1, <<max2 * 2, max2>>, FALSE),
               l1, l2, max + 1, <<max2, 0>>, FALSE).n,
     m1 |-> m1, m2 |-> m2,
     z1 |-> bc_num_clean(Call("bc_num_m",
                              <<m1, m2, bc_num_init(max + 1), 0>>).n),
     max2 |-> max2]

\* The same from the halves, with c expanded and zeroed.
KaratsubaLastOf(l1, h1, l2, h2, tmp, max, max2) ==
    KaratsubaLast([bc_num_expand(bc_num_setToZero(bc_num_init(0), 0),
                                 2 * max + 3)
                      EXCEPT !.len = 2 * max + 3,
                             !.num = Store(@, 0, Zeros(2 * max + 3))],
                  l1, h1, l2, h2,
                  Call("bc_num_sub", <<h1, l1, tmp, FALSE>>).n,
                  Call("bc_num_sub", <<l2, h2, tmp, FALSE>>).n, max, max2)

\* The same from the splits sx of a and sy of b.
KaratsubaLastAt(sx, sy, tmp, max, max2) ==
    KaratsubaLastOf(bc_num_clean(sx.a), bc_num_clean(sx.b),
                    bc_num_clean(sy.a), bc_num_clean(sy.b), tmp, max, max2)

\* bc_num_k(x, y, c) of operands it splits, up to its last product.
KaratsubaUpToLast(x, y, max) ==
    KaratsubaLastAt(bc_num_split(x, (max + 1) \div 2,
                                 bc_num_setup(Fill(max, Junk)),
                                 bc_num_setup(Fill(max, Junk))),
                    bc_num_split(y, (max + 1) \div 2,
                                 bc_num_setup(Fill(max, Junk)),
                                 bc_num_setup(Fill(max, Junk))),
                    bc_num_setup(Fill(max, Junk)), max,
                    (max + 1) \div 2)

\* bc_num_k(x, y, c) splits its operands.
KaratsubaSplits(x, y) ==
    /\ ~BC_NUM_ZERO(x) /\ ~BC_NUM_ZERO(y)
    /\ ~BC_NUM_ONE(x) /\ ~BC_NUM_ONE(y)
    /\ x.len >= karatsuba_len /\ y.len >= karatsuba_len

\* The last product of bc_num_k leaves the result by bc_num_subArrays.
KaratsubaTakes(v) ==
    BC_NUM_NONZERO(v.m1) /\ BC_NUM_NONZERO(v.m2) /\ v.m1.neg # v.m2.neg

\* bc_num_k up to its last product.
KaratsubaEnter ==
    /\ pc = "ready"
    /\ KaratsubaSplits(a, b)
    /\ pc' = "k"
    /\ frame' = [dl |-> KaratsubaUpToLast(a, b,
                                         BC_MAX(BC_MAX(a.len, b.len),
                                                BC_NUM_DEF_SIZE)),
                 leaf |-> NoFrame,
                 early |-> FALSE,
                 full |-> Call("bc_num_k",
                               <<a, b, bc_num_setToZero(bc_num_init(0), 0)>>)]
    /\ UNCHANGED <<op, a, b, scale, c, d, st, ret, hops, sig_received,
                   ibase, vm, karatsuba_len>>

\* The call of bc_num_subArrays for z1.
KaratsubaTake ==
    /\ pc = "k"
    /\ frame.leaf = NoFrame
    /\ KaratsubaTakes(frame.dl)
    /\ frame' = [frame EXCEPT
                    !.leaf = LeafCall("bc_num_subArrays", frame.dl.r.num,
                                      frame.dl.max2, frame.dl.z1.num, 0,
                                      frame.dl.z1.len, 0, frame.dl.r)]
    /\ UNCHANGED <<pc, op, a, b, scale, c, d, st, ret, hops, sig_received,
                   ibase, vm, karatsuba_len>>

\* bc_num_k returns after bc_num_subArrays.
KaratsubaLeave ==
    /\ pc = "k"
    /\ frame.leaf # NoFrame
    /\ frame.leaf.pos = "returned"
    /\ Return("k", [s |-> frame.leaf.s,
                    n |-> [frame.leaf.n EXCEPT !.num = frame.leaf.x]])

\* bc_num_k returns after it added z1, or left it out.
KaratsubaAdds ==
    /\ pc = "k"
    /\ frame.leaf = NoFrame
    /\ ~KaratsubaTakes(frame.dl)
    /\ Return("k", frame.full)

\* The number whose cells are lo (k of them) under hi (m of them).
HalvesNum(k, lo, m, hi) ==
    [bc_num_init(k + m) EXCEPT
        !.num = Store(@, 0, Fill(k, lo) \o Fill(m, hi)), !.len = k + m]

\* Integers of 17 cells, which bc_num_k splits into 9 cells and 8; the low
\* cells of some are zero, so that h1 - l1 and l2 - h2 take either sign.
LongNums == {HalvesNum(9, t[1], 8, t[2]) : t \in {0, 1, 99} \X {1, 99}}

BorrowNums ==
    {MkNum(t[1], t[2], FALSE) :
        t \in {0, 7, 1234, 9999, 123456} \X {0, 1, 3}}
        \cup {MkNum(7, 1, TRUE), MkNum(9999, 0, TRUE)}

InitBorrow ==
    \/ \E x, y \in BorrowNums, sc \in {0, MaxScale} : Ready(x, y, sc)
    \/ \E x, y \in LongNums : Ready(x, y, 0)

NextBorrow ==
    \/ SubShort \/ SubEnter \/ SubLeave
    \/ KaratsubaEnter \/ KaratsubaTake \/ KaratsubaLeave \/ KaratsubaAdds
    \/ AsyncShort \/ AsyncEnter \/ AsyncStep \/ AsyncLeave
    \/ AsyncPoll

SpecBorrow == InitBorrow /\ [][NextBorrow]_vars

\* xs < ys, as numbers of i cells each.
RECURSIVE LessFrom(_, _, _)
LessFrom(xs, ys, i) ==
    IF i = 0 THEN FALSE
    ELSE IF xs[i] # ys[i] THEN xs[i] < ys[i]
    ELSE LessFrom(xs, ys, i - 1)

\* The number of the cells xs is less than the number of the cells ys.
CellsLess(xs, ys) ==
    LessFrom(xs \o Zeros(BC_MAX(Len(ys) - Len(xs), 0)),
             ys \o Zeros(BC_MAX(Len(xs) - Len(ys), 0)),
             BC_MAX(Len(xs), Len(ys)))

\* The cells in use of the minuend of the call f of bc_num_subArrays, from
\* its first cell up.
Minuend(f) == Cells(f.x, f.xo, f.n.len - f.xo)

Subtrahend(f) == Cells(f.y, f.yo, f.len)

(***************************************************************************)
(* C25: at every call of bc_num_subArrays by bc_num_s, bc_num_k and        *)
(* bc_num_d_long the minuend, from the first cell of the call up to its    *)
(* last cell in use, is not less than the subtrahend; the borrow stays     *)
(* inside those cells and the call leaves none of them negative.           *)
(***************************************************************************)
BorrowStaysInside ==
    (pc \in {"div", "sub", "k"} /\ frame.leaf # NoFrame
        /\ frame.leaf.fn = "bc_num_subArrays") =>
        LET f == frame.leaf
        IN /\ (f.pos = "loop" /\ f.i = 0) =>
                  ~CellsLess(Minuend(f), Subtrahend(f))
           /\ (f.pos = "borrow" /\ f.x[f.xo + f.i + f.j + 1] < 0) =>
                  f.xo + f.i + f.j + 2 <= f.n.len
           /\ f.pos = "returned" =>
                  \A k \in 1..Len(f.x) : f.x[k] >= 0

\* In bc_num_d_long the loop that lowers q is taking sub from cpb, and the
\* borrow has gone up a cell.
BorrowWitness ==
    /\ pc = "div"
    /\ frame.dl.pos = "sub"
    /\ frame.dl.cmp < 0
    /\ frame.leaf.fn = "bc_num_subArrays"
    /\ frame.leaf.pos = "borrow"
    /\ frame.leaf.j > 0
    /\ frame.leaf.x[frame.leaf.xo + frame.leaf.i + frame.leaf.j + 1] < 0

(***************************************************************************)
(* The pointers bc_num_m hands to free and realloc.  A pointer is the      *)
(* allocation base it points into, its offset off from the first cell of   *)
(* that allocation, and whether it is a view set by bc_num_setup into a    *)
(* buffer that some other pointer owns.  The heap is the set live of the   *)
(* allocations not yet freed, and bad, which is set once free or realloc   *)
(* gets a pointer that is not the first cell of a live allocation, or a    *)
(* view.                                                                   *)
(***************************************************************************)
Pointer(base, off, view) == [base |-> base, off |-> off, view |-> view]

\* The pointer is one that malloc or realloc returned and free has not
\* had.
Allocated(h, p) == p.off = 0 /\ p.base \in h.live /\ ~p.view

\* malloc
Malloc(h, names) == [h EXCEPT !.live = @ \cup names]

\* free(p)
Free(h, p) ==
    [live |-> h.live \ {p.base}, bad |-> h.bad \/ ~Allocated(h, p)]

\* The realloc in bc_num_expand, which is called when req > n->cap: grew.
Realloc(h, p, grew) ==
    IF grew THEN [h EXCEPT !.bad = @ \/ ~Allocated(h, p)] ELSE h

\* A number [n, p]: the number n as the code sees it from its pointer p.
\* bc_num_shiftZero moves the pointer up past the low zero cells.
ShiftZeroAt(t) ==
    [n |-> bc_num_shiftZero(t.n).n,
     p |-> [t.p EXCEPT !.off = @ + bc_num_shiftZero(t.n).i]]

\* bc_num_unshiftZero that leaves the pointer where it is.
bc_num_unshiftZero_none(t, places_rdx) == t

\* bc_num_unshiftZero(n, places_rdx): the pointer goes back down.
bc_num_unshiftZero(t, places_rdx) ==
    [n |-> [t.n EXCEPT !.len = @ + places_rdx,
                       !.num = Zeros(places_rdx) \o @],
     p |-> [t.p EXCEPT !.off = @ - places_rdx]]

\* bc_num_shiftLeft(&cp, rdx) on a copy t of an operand of bc_num_m: the
\* status, the copy, and the heap after the realloc it may make.
MulShiftLeftAt(h, t, r) ==
    [s |-> r.s, t |-> [t EXCEPT !.n = r.n],
     h |-> Realloc(h, t.p, Len(r.n.num) > Len(t.n.num))]

\* The locals of bc_num_m(x, y, c0, sc) once cpa and cpb are copies of its
\* operands.
MulLocals(x, y, c0, sc) ==
    [pos |-> "left_a", s |-> BC_STATUS_SUCCESS,
     h |-> [live |-> {"c", "cpa", "cpb"}, bad |-> FALSE],
     cpa |-> [n |-> MulCopy(x), p |-> Pointer("cpa", 0, FALSE)],
     cpb |-> [n |-> MulCopy(y), p |-> Pointer("cpb", 0, FALSE)],
     azero |-> 0, bzero |-> 0, c |-> c0,
     scale |-> BC_MIN(x.scale + y.scale,
                      BC_MAX(BC_MAX(sc, x.scale), y.scale)),
     kv |-> NoFrame, kr |-> NoFrame]

\* The buffers bc_num_k allocates: the slab digs of the six views l1, h1,
\* l2, h2, m1 and m2, and z0, z1, z2 and temp.
KaratsubaBuffers == {"digs", "z0", "z1", "z2", "temp"}

\* bc_num_m takes the path of bc_num_mulArray.
MulBySingleCell(x, y) ==
    (x.len = 1 \/ y.len = 1) /\ x.rdx = 0 /\ y.rdx = 0

\* bc_num_m after the shift left of cpa returned r.
MulLeftA(m, r) ==
    IF r.s # BC_STATUS_SUCCESS
    THEN [m EXCEPT !.pos = "err", !.s = r.s, !.h = r.h, !.cpa = r.t]
    ELSE [m EXCEPT
             !.pos = "left_b", !.h = r.h,
             !.cpa = ShiftZeroAt([r.t EXCEPT !.n = bc_num_clean(@)]),
             !.azero = bc_num_shiftZero(bc_num_clean(r.t.n)).i]

\* bc_num_m after the shift left of cpb returned r.
MulLeftB(m, r) ==
    IF r.s # BC_STATUS_SUCCESS
    THEN [m EXCEPT !.pos = "err", !.s = r.s, !.h = r.h, !.cpb = r.t]
    ELSE [m EXCEPT
             !.pos = "k", !.h = r.h,
             !.cpb = [ShiftZeroAt(r.t) EXCEPT !.n = bc_num_clean(@)],
             !.bzero = bc_num_shiftZero(r.t.n).i]

\* bc_num_k(&cpa, &cpb, c) in bc_num_m: its result kr, and on to its
\* allocations when it splits its operands.
MulKEnter(m, splits, max) ==
    IF splits
    THEN [m EXCEPT !.pos = "k_views",
                   !.h = Malloc(@, KaratsubaBuffers),
                   !.kv = KaratsubaUpToLast(m.cpa.n, m.cpb.n, max),
                   !.kr = Call("bc_num_k", <<m.cpa.n, m.cpb.n, m.c>>)]
    ELSE [m EXCEPT !.pos = "k_ret",
                   !.kr = Call("bc_num_k", <<m.cpa.n, m.cpb.n, m.c>>)]

\* bc_num_m after bc_num_k returned m.kr.
MulAfterK(m) ==
    IF m.kr.s # BC_STATUS_SUCCESS
    THEN [m EXCEPT !.pos = "err", !.s = m.kr.s, !.c = m.kr.n]
    ELSE [m EXCEPT !.pos = "back", !.c = m.kr.n]

\* bc_num_m after the shifts of c and bc_num_retireMul gave r: the buffer
\* of c grew in a realloc of the pointer the caller handed in.
MulAfterBack(m, r) ==
    [m EXCEPT !.pos = "err", !.s = r.s, !.c = r.n,
              !.h = Realloc(@, Pointer("c", 0, FALSE),
                            Len(r.n.num) > Len(m.c.num))]

\* The err label of bc_num_m: the copies are put back and freed.
MulErr(m) ==
    [m EXCEPT
        !.pos = "returned",
        !.cpb = bc_num_unshiftZero(@, m.bzero),
        !.cpa = bc_num_unshiftZero(@, m.azero),
        !.h = Free(Free(@, bc_num_unshiftZero(m.cpb, m.bzero).p),
                   bc_num_unshiftZero(m.cpa, m.azero).p)]

\* bc_num_sub wrote m1 and m2 through bc_num_binary, whose bc_num_expand
\* reallocs a buffer that is too short: m1 and m2 are the fifth and the
\* sixth view into digs, of max cells each.
MulKViews(m, max) ==
    [m EXCEPT !.pos = "k_err",
              !.h = Realloc(Realloc(@, Pointer("digs", 4 * max, TRUE),
                                    Len(m.kv.m1.num) > max),
                            Pointer("digs", 5 * max, TRUE),
                            Len(m.kv.m2.num) > max)]

\* The err label of bc_num_k.
MulKErr(m) ==
    [m EXCEPT !.pos = "k_ret",
              !.h = Free(Free(Free(Free(Free(@,
                              Pointer("digs", 0, FALSE)),
                              Pointer("temp", 0, FALSE)),
                              Pointer("z2", 0, FALSE)),
                              Pointer("z1", 0, FALSE)),
                              Pointer("z0", 0, FALSE))]

\* bc_num_m(a, b, c) from one call it makes to the next.
MulStep(m, x, y) ==
    CASE m.pos = "left_a" ->
           MulLeftA(m, MulShiftLeftAt(m.h, m.cpa,
                                      Call("bc_num_shiftLeft",
                                           <<m.cpa.n,
                                             m.cpa.n.rdx * BC_BASE_DIGS>>)))
      [] m.pos = "left_b" ->
           MulLeftB(m, MulShiftLeftAt(m.h, m.cpb,
                                      Call("bc_num_shiftLeft",
                                           <<m.cpb.n,
                                             m.cpb.n.rdx * BC_BASE_DIGS>>)))
      [] m.pos = "k" ->
           MulKEnter(m, BC_NO_SIG /\ KaratsubaSplits(m.cpa.n, m.cpb.n),
                     BC_MAX(BC_MAX(m.cpa.n.len, m.cpb.n.len),
                            BC_NUM_DEF_SIZE))
      [] m.pos = "k_views" ->
           MulKViews(m, BC_MAX(BC_MAX(m.cpa.n.len, m.cpb.n.len),
                               BC_NUM_DEF_SIZE))
      [] m.pos = "k_err" -> MulKErr(m)
      [] m.pos = "k_ret" -> MulAfterK(m)
      [] m.pos = "back" ->
           MulAfterBack(m, MulShift(x, y, m.scale, m.azero + m.bzero,
                                    [s |-> BC_STATUS_SUCCESS, n |-> m.c]))
      [] m.pos = "err" -> MulErr(m)

\* bc_num_mul through the single-cell path of bc_num_m, which allocates
\* nothing.
HeapShort ==
    /\ pc = "ready"
    /\ MulBySingleCell(a, b)
    /\ Return("mul", Call("bc_num_mul", <<a, b, c, scale, FALSE>>))

\* bc_num_mul up to the copies cpa and cpb of bc_num_m.
HeapEnter ==
    /\ pc = "ready"
    /\ ~MulBySingleCell(a, b)
    /\ ~sig_received
    /\ pc' = "m"
    /\ frame' = MulLocals(a, b,
                          bc_num_setToZero(
                              bc_num_expand(c, bc_num_mulReq(a, b, scale)),
                              0),
                          scale)
    /\ UNCHANGED <<op, a, b, scale, c, d, st, ret, hops, sig_received,
                   ibase, vm, karatsuba_len>>

\* bc_num_m goes on to its next call.
HeapStep ==
    /\ pc = "m"
    /\ frame.pos # "returned"
    /\ frame' = MulStep(frame, a, b)
    /\ UNCHANGED <<pc, op, a, b, scale, c, d, st, ret, hops, sig_received,
                   ibase, vm, karatsuba_len>>

\* bc_num_m and bc_num_mul return.
HeapLeave ==
    /\ pc = "m"
    /\ frame.pos = "returned"
    /\ Return("mul", [s |-> frame.s, n |-> frame.c])

\* The signal arrives while bc_num_m runs.
HeapRaise ==
    /\ pc = "m"
    /\ ~sig_received
    /\ sig_received' = TRUE
    /\ UNCHANGED <<pc, op, a, b, scale, c, d, st, ret, hops, ibase, vm,
                   karatsuba_len, frame>>

\* Factors with low cells that are zero, with and without a fraction, and
\* integers of 17 cells and more, which bc_num_k splits once their low zero
\* cells are skipped.
HeapNums ==
    {MkNum(t[1], t[2], FALSE) :
        t \in {0, 7, 100, 1234, 10000, 120000, 999999} \X {0, 2, 3}}
        \cup {HalvesNum(9, t[1], 8, t[2]) : t \in {0, 99} \X {1, 99}}
        \cup {HalvesNum(1, 0, 17, 99), HalvesNum(2, 0, 17, 1)}

InitHeap == \E x, y \in HeapNums, sc \in {0, MaxScale} : Ready(x, y, sc)

NextHeap == HeapShort \/ HeapEnter \/ HeapStep \/ HeapLeave \/ HeapRaise

SpecHeap == InitHeap /\ [][NextHeap]_vars

SignsCleared(x, y) == <<[x EXCEPT !.neg = FALSE], [y EXCEPT !.neg = FALSE]>>

\* The operands a and b as bc_num_s(a, b, c, sub) leaves them.
SubOperands(x, y) ==
    IF BC_NUM_ZERO(x) \/ BC_NUM_ZERO(y) THEN <<x, y>>
    ELSE IF bc_num_cmp(SignsCleared(x, y)[1], SignsCleared(x, y)[2])
                = BC_NUM_CMP_SIGNAL
    THEN SignsCleared(x, y)
    ELSE <<[SignsCleared(x, y)[1] EXCEPT !.neg = x.neg],
           [SignsCleared(x, y)[2] EXCEPT !.neg = y.neg]>>

\* The operands as bc_num_add leaves them: bc_num_s is its operation when
\* the signs differ.
AddLeaves(x, y) == IF x.neg = y.neg THEN <<x, y>> ELSE SubOperands(x, y)

\* The operands as bc_num_sub leaves them: bc_num_s is its operation when
\* the signs are the same.
SubLeaves(x, y) == IF x.neg = y.neg THEN SubOperands(x, y) ELSE <<x, y>>

\* The operands as bc_num_p leaves them: the sign of b is cleared for
\* bc_num_bigdig and written back.
PowLeaves(x, y) ==
    IF y.rdx # 0 \/ BC_NUM_ZERO(y) \/ BC_NUM_ZERO(x) \/ BC_NUM_ONE(y)
    THEN <<x, y>>
    ELSE <<x, [[y EXCEPT !.neg = FALSE] EXCEPT !.neg = y.neg]>>

\* An operation returns r and leaves the operands ops; frame keeps the
\* operands it was called with.
ReturnLeaving(name, r, ops) ==
    /\ pc' = "done"
    /\ op' = name
    /\ c' = r.n
    /\ st' = r.s
    /\ a' = ops[1]
    /\ b' = ops[2]
    /\ frame' = [a |-> a, b |-> b]
    /\ UNCHANGED <<scale, d, ret, hops, sig_received, ibase, vm,
                   karatsuba_len>>

FrameAdd ==
    /\ pc = "ready"
    /\ ReturnLeaving("add", Call("bc_num_add", <<a, b, c, FALSE>>),
                     AddLeaves(a, b))

FrameSub ==
    /\ pc = "ready"
    /\ ReturnLeaving("sub", Call("bc_num_sub", <<a, b, c, FALSE>>),
                     SubLeaves(a, b))

FrameMul ==
    /\ pc = "ready"
    /\ ReturnLeaving("mul", Call("bc_num_mul", <<a, b, c, scale, FALSE>>),
                     <<a, b>>)

FrameDiv ==
    /\ pc = "ready"
    /\ ReturnLeaving("div", Call("bc_num_div", <<a, b, c, scale, FALSE>>),
                     <<a, b>>)

FramePow ==
    /\ pc = "ready"
    /\ ReturnLeaving("pow", Call("bc_num_pow", <<a, b, c, scale, FALSE>>),
                     PowLeaves(a, b))

\* bc_num_r returns before its bc_num_sub(a, &temp, d, scale).
RemIsShort(x, y, m) ==
    BC_NUM_ZERO(y) \/ BC_NUM_ZERO(x) \/ m.s # BC_STATUS_SUCCESS

\* temp of bc_num_r(a, b, &c1, c, scale, ts): the quotient times b.
RemTemp(x, y, cc, sc, ts) ==
    LET q == Call("bc_num_d", <<x, y, bc_num_init(bc_num_mulReq(x, y, ts)),
                                sc>>)
    IN IF q.s # BC_STATUS_SUCCESS THEN q
       ELSE Call("bc_num_m", <<q.n, y, bc_num_init(Len(cc.num)),
                               IF sc # 0 THEN ts + 1 ELSE sc>>)

\* The end of bc_num_r, after bc_num_sub(a, &temp, d, scale) gave df.
RemRetire(df, ts, xneg, yneg) ==
    IF df.s # BC_STATUS_SUCCESS THEN df
    ELSE LET d1 == IF ts > df.n.scale /\ BC_NUM_NONZERO(df.n)
                   THEN bc_num_extend(df.n, ts - df.n.scale) ELSE df.n
             d2 == Call("bc_num_retireMul", <<d1, ts, xneg, yneg>>)
         IN [s |-> BC_STATUS_SUCCESS,
             n |-> [d2 EXCEPT !.neg = IF BC_NUM_NONZERO(d2) THEN d1.neg
                                      ELSE FALSE]]

\* bc_num_mod up to the subtraction of bc_num_r.
FrameModEnter ==
    /\ pc = "ready"
    /\ pc' = "r"
    /\ frame' = [temp |-> RemTemp(a, b,
                                  bc_num_expand(c, bc_num_mulReq(a, b, scale)),
                                  scale, BC_MAX(scale + b.scale, a.scale))]
    /\ UNCHANGED <<op, a, b, scale, c, d, st, ret, hops, sig_received,
                   ibase, vm, karatsuba_len>>

\* bc_num_mod that returns before the subtraction of bc_num_r.
FrameModShort ==
    /\ pc = "r"
    /\ RemIsShort(a, b, frame.temp)
    /\ ReturnLeaving("mod", Call("bc_num_mod", <<a, b, c, scale, FALSE>>),
                     <<a, b>>)

\* bc_num_sub(a, &temp, d, scale) of bc_num_r, and the return of
\* bc_num_mod.
FrameModLeave ==
    /\ pc = "r"
    /\ ~RemIsShort(a, b, frame.temp)
    /\ ReturnLeaving("mod",
                     RemRetire(Call("bc_num_sub",
                                    <<a, frame.temp.n,
                                      bc_num_expand(c, bc_num_mulReq(a, b,
                                                                     scale)),
                                      FALSE>>),
                               BC_MAX(scale + b.scale, a.scale),
                               a.neg, b.neg),
                     <<SubLeaves(a, frame.temp.n)[1], b>>)

\* The signal arrives before the operation, or before the subtraction of
\* bc_num_r.
FrameRaise ==
    /\ pc = "ready" \/ (pc = "r" /\ ~RemIsShort(a, b, frame.temp))
    /\ ~sig_received
    /\ sig_received' = TRUE
    /\ UNCHANGED <<pc, op, a, b, scale, c, d, st, ret, hops, ibase, vm,
                   karatsuba_len, frame>>

FrameNums == {MkNum(u, s, ng) : u \in {0, 1, 2, 3, 7, 12},
                                s \in {0, 1}, ng \in BOOLEAN}

InitFrame == \E x, y \in FrameNums, sc \in {0, MaxScale} : Ready(x, y, sc)

NextFrame ==
    \/ FrameAdd \/ FrameSub \/ FrameMul \/ FrameDiv \/ FramePow
    \/ FrameModEnter \/ FrameModShort \/ FrameModLeave \/ FrameRaise

SpecFrame == InitFrame /\ [][NextFrame]_vars

(***************************************************************************)
(* C27: when add, sub, mul, div, mod or pow returns, with any status, its  *)
(* operands a and b are as they were at the call: cells, len, rdx, scale   *)
(* and neg.                                                                *)
(***************************************************************************)
OperandsUnchanged ==
    (pc = "done" /\ frame # NoFrame) => (a = frame.a /\ b = frame.b)

(***************************************************************************)
(* The output of a binary operation and what the output held before.  An   *)
(* earlier operation has left a number in c and d; the operation is run on *)
(* them, and on numbers that bc_num_init has just made, which frame keeps. *)
(***************************************************************************)

\* Numbers an earlier operation stored: negative, or with a fraction.
PriorOutputs == {MkNum(15, 1, TRUE), MkNum(5, 0, TRUE), MkNum(1234, 3, FALSE)}

\* An earlier operation left its results in c and d.
OutputStored ==
    /\ pc = "ready"
    /\ hops = 0
    /\ hops' = 1
    /\ \E p, q \in PriorOutputs : c' = p /\ d' = q
    /\ UNCHANGED <<pc, op, a, b, scale, st, ret, sig_received, ibase, vm,
                   karatsuba_len, frame>>

\* The operation returns r, having written c (and d); fresh is what it
\* returns when c and d are new numbers.
ReturnBoth(name, r, fresh) ==
    /\ pc' = "done"
    /\ op' = name
    /\ c' = r.c
    /\ d' = r.d
    /\ st' = r.s
    /\ frame' = fresh
    /\ UNCHANGED <<a, b, scale, ret, hops, sig_received, ibase, vm,
                   karatsuba_len>>

\* A result [s, n] written to c, with d as it is.
InC(r, dd) == [s |-> r.s, c |-> r.n, d |-> dd]

OutAdd ==
    /\ pc = "ready"
    /\ ReturnBoth("add", InC(Call("bc_num_add", <<a, b, c, FALSE>>), d),
                  InC(Call("bc_num_add", <<a, b, bc_num_init(0), FALSE>>),
                      d))

OutSub ==
    /\ pc = "ready"
    /\ ReturnBoth("sub", InC(Call("bc_num_sub", <<a, b, c, FALSE>>), d),
                  InC(Call("bc_num_sub", <<a, b, bc_num_init(0), FALSE>>),
                      d))

OutMul ==
    /\ pc = "ready"
    /\ ReturnBoth("mul",
                  InC(Call("bc_num_mul", <<a, b, c, scale, FALSE>>), d),
                  InC(Call("bc_num_mul",
                           <<a, b, bc_num_init(0), scale, FALSE>>), d))

OutDiv ==
    /\ pc = "ready"
    /\ ReturnBoth("div",
                  InC(Call("bc_num_div", <<a, b, c, scale, FALSE>>), d),
                  InC(Call("bc_num_div",
                           <<a, b, bc_num_init(0), scale, FALSE>>), d))

OutMod ==
    /\ pc = "ready"
    /\ ReturnBoth("mod",
                  InC(Call("bc_num_mod", <<a, b, c, scale, FALSE>>), d),
                  InC(Call("bc_num_mod",
                           <<a, b, bc_num_init(0), scale, FALSE>>), d))

OutDivmod ==
    /\ pc = "ready"
    /\ ReturnBoth("divmod",
                  Call("bc_num_divmod", <<a, b, c, d, scale, FALSE>>),
                  Call("bc_num_divmod",
                       <<a, b, bc_num_init(0), bc_num_init(0), scale,
                         FALSE>>))

OutNums == {MkNum(u, s, ng) : u \in {0, 1, 7, 100, 1234},
                              s \in {0, 1}, ng \in BOOLEAN}

InitOut == \E x, y \in OutNums, sc \in {0, MaxScale} : Ready(x, y, sc)

NextOut ==
    \/ OutputStored
    \/ OutAdd \/ OutSub \/ OutMul \/ OutDiv \/ OutMod \/ OutDivmod

SpecOut == InitOut /\ [][NextOut]_vars

(***************************************************************************)
(* C28: the number add, sub, mul, div, mod or divmod writes to its output  *)
(* (and divmod to its second output) is the number it writes to a new      *)
(* output, whatever the output held before.                                *)
(***************************************************************************)
OutputIgnoresPrior ==
    (pc = "done" /\ frame # NoFrame /\ st = BC_STATUS_SUCCESS) =>
        /\ frame.s = BC_STATUS_SUCCESS
        /\ SameNumber(c, frame.c)
        /\ op = "divmod" => SameNumber(d, frame.d)

====
